---- MODULE Spec2Model ----
(***************************************************************************)
(* A model of the native window-message layer of QWindowKit:                *)
(*   src/src/core/contexts/win32windowcontext.cpp   (hook registry, window  *)
(*       procedure, snap-layout state machine, WM_NCCALCSIZE handler)       *)
(*   src/src/core/contexts/win32windowcontext_p.h   (per-context state)     *)
(*   src/src/core/handler/abstractwindowcontext.cpp (registration calls)    *)
(* A machine word (WPARAM, LPARAM) is a record [hi, lo] of two 16-bit       *)
(* words, so that HIWORD/LOWORD/MAKEWPARAM are computed as the code does.   *)
(***************************************************************************)
EXTENDS Integers, Sequences, FiniteSets, TLC

\* ------------------------------------------------------------------ bounds
NumCtx == 2
NumHwnd == 2
MaxQueue == 2
MaxRects == 2
MaxCoord == 2

\* ----------------------------------------------------- Win32 constants used
WinFALSE == 0
WinTRUE == 1

WM_DESTROY == 2
WM_CLOSE == 16
WM_NCDESTROY == 130
WM_NCCALCSIZE == 131
WM_NCHITTEST == 132
WM_UAHDESTROYWINDOW == 144
WM_UNREGISTER_WINDOW_SERVICES == 626

WM_NCMOUSEMOVE == 160
WM_NCLBUTTONDOWN == 161
WM_NCLBUTTONUP == 162
WM_NCLBUTTONDBLCLK == 163
WM_NCRBUTTONDOWN == 164
WM_NCRBUTTONUP == 165
WM_NCRBUTTONDBLCLK == 166
WM_NCMBUTTONDOWN == 167
WM_NCMBUTTONUP == 168
WM_NCMBUTTONDBLCLK == 169
WM_NCXBUTTONDOWN == 171
WM_NCXBUTTONUP == 172
WM_NCXBUTTONDBLCLK == 173
WM_NCMOUSEHOVER == 672
WM_NCMOUSELEAVE == 674

WM_MOUSEMOVE == 512
WM_LBUTTONDOWN == 513
WM_LBUTTONUP == 514
WM_LBUTTONDBLCLK == 515
WM_RBUTTONDOWN == 516
WM_RBUTTONUP == 517
WM_RBUTTONDBLCLK == 518
WM_MBUTTONDOWN == 519
WM_MBUTTONUP == 520
WM_MBUTTONDBLCLK == 521
WM_XBUTTONDOWN == 523
WM_XBUTTONUP == 524
WM_XBUTTONDBLCLK == 525
WM_MOUSEHOVER == 673
WM_MOUSELEAVE == 675

MK_LBUTTON == 1
MK_RBUTTON == 2
MK_SHIFT == 4
MK_CONTROL == 8
MK_MBUTTON == 16
MK_XBUTTON1 == 32
MK_XBUTTON2 == 64

VK_LBUTTON == 1
VK_RBUTTON == 2
VK_MBUTTON == 4
VK_XBUTTON1 == 5
VK_XBUTTON2 == 6
VK_SHIFT == 16
VK_CONTROL == 17

HTERROR == -2
HTNOWHERE == 0
HTCLIENT == 1
HTCAPTION == 2
HTSYSMENU == 3
HTREDUCE == 8
HTZOOM == 9
HTLEFT == 10
HTRIGHT == 11
HTTOP == 12
HTTOPLEFT == 13
HTTOPRIGHT == 14
HTBOTTOM == 15
HTBOTTOMLEFT == 16
HTBOTTOMRIGHT == 17
HTBORDER == 18
HTCLOSE == 20
HTHELP == 21

WVR_REDRAW == 768
kAutoHideTaskBarThickness == 2
\* kMessageTag = WPARAM(0x97CCEA99): high word 0x97CC, low word 0xEA99
kMessageTagHi == 38860
kMessageTagLo == 60057

\* ------------------------------------------------------------ machine words
WordSize == 65536

\* (WORD) v: the low 16 bits of an integer, two's complement
ToWord(v) == v % WordSize

\* (short) w: a 16-bit word read as a signed value (GET_X_LPARAM, GET_Y_LPARAM)
ToShort(w) == IF w >= WordSize \div 2 THEN w - WordSize ELSE w

MakeWord32(l, h) == [hi |-> ToWord(h), lo |-> ToWord(l)]

HIWORD(w) == w.hi
LOWORD(w) == w.lo

\* a | b on naturals
RECURSIVE BitOr(_, _)
BitOr(a, b) ==
    IF a = 0 THEN b
    ELSE IF b = 0 THEN a
    ELSE (IF (a % 2 = 1) \/ (b % 2 = 1) THEN 1 ELSE 0)
         + 2 * BitOr(a \div 2, b \div 2)

\* a & b on naturals
RECURSIVE BitAnd(_, _)
BitAnd(a, b) ==
    IF a = 0 \/ b = 0 THEN 0
    ELSE (IF (a % 2 = 1) /\ (b % 2 = 1) THEN 1 ELSE 0)
         + 2 * BitAnd(a \div 2, b \div 2)

kMessageTag == [hi |-> kMessageTagHi, lo |-> kMessageTagLo]

\* a test that takes no message for one of the handler's own
isTaggedMessage_Never(wParam) == FALSE

isTaggedMessage(wParam) == wParam = kMessageTag

\* ------------------------------------------------------------- window parts
WindowPart ==
    {"Outside", "ClientArea", "ChromeButton", "ResizeBorder", "FixedBorder", "TitleBar"}

\* the classifier without the case of the close button
getHitWindowPart_NoCloseCase(hitTestResult) ==
    CASE hitTestResult = HTCLIENT -> "ClientArea"
      [] hitTestResult = HTCAPTION -> "TitleBar"
      [] hitTestResult \in {HTSYSMENU, HTHELP, HTREDUCE, HTZOOM} -> "ChromeButton"
      [] hitTestResult \in {HTLEFT, HTRIGHT, HTTOP, HTTOPLEFT, HTTOPRIGHT,
                            HTBOTTOM, HTBOTTOMLEFT, HTBOTTOMRIGHT} -> "ResizeBorder"
      [] hitTestResult = HTBORDER -> "FixedBorder"
      [] OTHER -> "Outside"

getHitWindowPart(hitTestResult) ==
    CASE hitTestResult = HTCLIENT -> "ClientArea"
      [] hitTestResult = HTCAPTION -> "TitleBar"
      [] hitTestResult \in {HTSYSMENU, HTHELP, HTREDUCE, HTZOOM, HTCLOSE} -> "ChromeButton"
      [] hitTestResult \in {HTLEFT, HTRIGHT, HTTOP, HTTOPLEFT, HTTOPRIGHT,
                            HTBOTTOM, HTBOTTOMLEFT, HTBOTTOMRIGHT} -> "ResizeBorder"
      [] hitTestResult = HTBORDER -> "FixedBorder"
      [] OTHER -> "Outside"

\* ---------------------------------------------------------------- key state
VKeys == {VK_LBUTTON, VK_RBUTTON, VK_SHIFT, VK_CONTROL, VK_MBUTTON, VK_XBUTTON1, VK_XBUTTON2}

\* result |= f for each flag f of fs in turn, from result r
RECURSIVE OrAll(_, _)
OrAll(r, fs) == IF fs = <<>> THEN r ELSE OrAll(BitOr(r, Head(fs)), Tail(fs))

\* keys: the virtual keys GetAsyncKeyState reports down; swapped: SM_SWAPBUTTON.
\* A key that is not down contributes no flag.
getKeyState(keys, swapped) ==
    OrAll(0, << IF VK_LBUTTON \in keys THEN (IF swapped THEN MK_RBUTTON ELSE MK_LBUTTON) ELSE 0,
                IF VK_RBUTTON \in keys THEN (IF swapped THEN MK_LBUTTON ELSE MK_RBUTTON) ELSE 0,
                IF VK_SHIFT \in keys THEN MK_SHIFT ELSE 0,
                IF VK_CONTROL \in keys THEN MK_CONTROL ELSE 0,
                IF VK_MBUTTON \in keys THEN MK_MBUTTON ELSE 0,
                IF VK_XBUTTON1 \in keys THEN MK_XBUTTON1 ELSE 0,
                IF VK_XBUTTON2 \in keys THEN MK_XBUTTON2 ELSE 0 >>)

\* ------------------------------------------------- client-area re-emission
Msg(hWnd, message, wParam, lParam) ==
    [hwnd |-> hWnd, message |-> message, wParam |-> wParam, lParam |-> lParam]

Word0 == [hi |-> 0, lo |-> 0]

\* QRect keeps the coordinates of its two corners; isValid() is
\* x1 <= x2 && y1 <= y2
QRect(x1, y1, x2, y2) == [x1 |-> x1, y1 |-> y1, x2 |-> x2, y2 |-> y2]
isValid(rect) == rect.x1 <= rect.x2 /\ rect.y1 <= rect.y2

\* ------------------------------------------------- geometry conversions
\* POINT is [x, y], SIZE is [cx, cy], RECT is [left, top, right, bottom];
\* QPoint is [xp, yp], QSize is [wd, ht] (the members of the Qt classes) and
\* QRect keeps its two corners. LONG and int are both 32 bits wide, so the
\* casts keep the value.
point2qpoint(point) == [xp |-> point.x, yp |-> point.y]

qpoint2point(point) == [x |-> point.xp, y |-> point.yp]

size2qsize(size) == [wd |-> size.cx, ht |-> size.cy]

qsize2size(size) == [cx |-> size.wd, cy |-> size.ht]

\* the macros of the Windows helper header: right - left and bottom - top
RECT_WIDTH(rect) == rect.right - rect.left
RECT_HEIGHT(rect) == rect.bottom - rect.top

\* QRect(const QPoint &topLeft, const QSize &size): x2 = x1 + width - 1 and
\* y2 = y1 + height - 1
QRectOfSize(topLeft, size) ==
    QRect(topLeft.xp, topLeft.yp, topLeft.xp + size.wd - 1, topLeft.yp + size.ht - 1)

rect2qrect(rect) ==
    QRectOfSize([xp |-> rect.left, yp |-> rect.top],
                [wd |-> RECT_WIDTH(rect), ht |-> RECT_HEIGHT(rect)])

\* QRect::left(), top(), right(), bottom() are x1, y1, x2, y2
qrect2rect(qrect) ==
    [left |-> qrect.x1, top |-> qrect.y1, right |-> qrect.x2, bottom |-> qrect.y2]

\* QHighDpi::fromNativeLocalPosition: a position relative to the window, in
\* native pixels, scaled to device-independent pixels (env.dpr: the scale
\* factor of the window); the origin it is relative to stays where it is
fromNativeLocalPosition(env, point) == [x |-> point.x \div env.dpr, y |-> point.y \div env.dpr]

\* isInSystemButtons of the base class, which is not among the source files:
\* the scene point lies within the geometry of a registered system button
\* (env.buttons: the geometries, in scene coordinates)
isInSystemButtons(env, pos) ==
    \E b \in env.buttons : b.x1 <= pos.x /\ pos.x <= b.x2 /\ b.y1 <= pos.y /\ pos.y <= b.y2

\* ::ScreenToClient: env.origin is the screen position of the client origin
ScreenToClient(env, pt) == [x |-> pt.x - env.origin.x, y |-> pt.y - env.origin.y]

\* the switch on myMsg without the case of the leave
ClientMessageOf_NoLeaveCase(myMsg) ==
    CASE myMsg \in {WM_NCHITTEST, WM_NCMOUSEMOVE} -> <<WM_MOUSEMOVE>>
      [] myMsg = WM_NCLBUTTONDOWN -> <<WM_LBUTTONDOWN>>
      [] myMsg = WM_NCLBUTTONUP -> <<WM_LBUTTONUP>>
      [] myMsg = WM_NCLBUTTONDBLCLK -> <<WM_LBUTTONDBLCLK>>
      [] myMsg = WM_NCRBUTTONDOWN -> <<WM_RBUTTONDOWN>>
      [] myMsg = WM_NCRBUTTONUP -> <<WM_RBUTTONUP>>
      [] myMsg = WM_NCRBUTTONDBLCLK -> <<WM_RBUTTONDBLCLK>>
      [] myMsg = WM_NCMBUTTONDOWN -> <<WM_MBUTTONDOWN>>
      [] myMsg = WM_NCMBUTTONUP -> <<WM_MBUTTONUP>>
      [] myMsg = WM_NCMBUTTONDBLCLK -> <<WM_MBUTTONDBLCLK>>
      [] myMsg = WM_NCXBUTTONDOWN -> <<WM_XBUTTONDOWN>>
      [] myMsg = WM_NCXBUTTONUP -> <<WM_XBUTTONUP>>
      [] myMsg = WM_NCXBUTTONDBLCLK -> <<WM_XBUTTONDBLCLK>>
      [] myMsg = WM_NCMOUSEHOVER -> <<WM_MOUSEHOVER>>
      [] OTHER -> <<>>

\* the client-area message kind posted for myMsg; <<>> for the default branch
ClientMessageOf(myMsg) ==
    CASE myMsg \in {WM_NCHITTEST, WM_NCMOUSEMOVE} -> <<WM_MOUSEMOVE>>
      [] myMsg = WM_NCLBUTTONDOWN -> <<WM_LBUTTONDOWN>>
      [] myMsg = WM_NCLBUTTONUP -> <<WM_LBUTTONUP>>
      [] myMsg = WM_NCLBUTTONDBLCLK -> <<WM_LBUTTONDBLCLK>>
      [] myMsg = WM_NCRBUTTONDOWN -> <<WM_RBUTTONDOWN>>
      [] myMsg = WM_NCRBUTTONUP -> <<WM_RBUTTONUP>>
      [] myMsg = WM_NCRBUTTONDBLCLK -> <<WM_RBUTTONDBLCLK>>
      [] myMsg = WM_NCMBUTTONDOWN -> <<WM_MBUTTONDOWN>>
      [] myMsg = WM_NCMBUTTONUP -> <<WM_MBUTTONUP>>
      [] myMsg = WM_NCMBUTTONDBLCLK -> <<WM_MBUTTONDBLCLK>>
      [] myMsg = WM_NCXBUTTONDOWN -> <<WM_XBUTTONDOWN>>
      [] myMsg = WM_NCXBUTTONUP -> <<WM_XBUTTONUP>>
      [] myMsg = WM_NCXBUTTONDBLCLK -> <<WM_XBUTTONDBLCLK>>
      [] myMsg = WM_NCMOUSEHOVER -> <<WM_MOUSEHOVER>>
      [] myMsg = WM_NCMOUSELEAVE -> <<WM_MOUSELEAVE>>
      [] OTHER -> <<>>

\* wParamNew with the button/modifier word of the incoming message kept
EmulatedWParam_KeepsIncoming(myMsg, wParam, env) ==
    IF myMsg = WM_NCMOUSELEAVE THEN kMessageTag
    ELSE LET keyState == getKeyState(env.keys, env.swapped)
         IN  MakeWord32(BitOr(keyState, LOWORD(wParam)), HIWORD(wParam))

\* the lambda computing wParamNew (lines 535-548)
EmulatedWParam(myMsg, wParam, env) ==
    IF myMsg = WM_NCMOUSELEAVE THEN kMessageTag
    ELSE LET keyState == getKeyState(env.keys, env.swapped)
         IN  IF (myMsg >= WM_NCXBUTTONDOWN) /\ (myMsg <= WM_NCXBUTTONDBLCLK)
             THEN MakeWord32(keyState, HIWORD(wParam))
             ELSE [hi |-> (keyState \div WordSize) % WordSize, lo |-> ToWord(keyState)]

\* the lambda computing lParamNew (lines 549-558)
EmulatedLParam(myMsg, lParam, env) ==
    IF myMsg = WM_NCMOUSELEAVE THEN Word0
    ELSE LET screenPos == [x |-> ToShort(LOWORD(lParam)), y |-> ToShort(HIWORD(lParam))]
             clientPos == ScreenToClient(env, screenPos)
         IN  MakeWord32(clientPos.x, clientPos.y)

\* emulateClientAreaMessage without the WM_NCMOUSEHOVER case of its switch
emulateClientAreaMessage_NoHoverCase(hWnd, message, wParam, lParam, overrideMessage, env) ==
    LET myMsg == IF overrideMessage = <<>> THEN message ELSE overrideMessage[1]
        kind == IF myMsg = WM_NCMOUSEHOVER THEN <<>> ELSE ClientMessageOf(myMsg)
    IN  IF kind = <<>> THEN <<>>
        ELSE <<Msg(hWnd, kind[1], EmulatedWParam(myMsg, wParam, env),
                   EmulatedLParam(myMsg, lParam, env))>>

\* overrideMessage: <<>> is std::nullopt, <<m>> holds m.
\* The value is the sequence of messages handed to PostMessageW.
emulateClientAreaMessage(hWnd, message, wParam, lParam, overrideMessage, env) ==
    LET myMsg == IF overrideMessage = <<>> THEN message ELSE overrideMessage[1]
        wParamNew == EmulatedWParam(myMsg, wParam, env)
        lParamNew == EmulatedLParam(myMsg, lParam, env)
        kind == ClientMessageOf(myMsg)
    IN  IF kind = <<>> THEN <<>>
        ELSE <<Msg(hWnd, kind[1], wParamNew, lParamNew)>>

\* a request that always asks for the non-client leave
requestForMouseLeaveMessage_NonClient(hWnd, nonClient) ==
    <<[hwndTrack |-> hWnd, dwFlags |-> {"TME_LEAVE", "TME_NONCLIENT"}]>>

\* the TRACKMOUSEEVENT handed to ::TrackMouseEvent
requestForMouseLeaveMessage(hWnd, nonClient) ==
    <<[hwndTrack |-> hWnd,
       dwFlags |-> {"TME_LEAVE"} \cup (IF nonClient THEN {"TME_NONCLIENT"} ELSE {})]>>

\* ------------------------------------------------------ snapLayoutHandler
\* A handler's outcome: its return value, the value of *result, the context's
\* two fields afterwards and the calls it made (posted messages, TrackMouseEvent
\* requests, resetQtGrabbedControl calls, DefWindowProcW calls), and the
\* rectangle lParam points to (WM_NCCALCSIZE only).
Outcome(handled, result, hit, blocked, posted, tracked, resets, defCalls, rect) ==
    [handled |-> handled, result |-> result, hit |-> hit, blocked |-> blocked,
     posted |-> posted, tracked |-> tracked, resets |-> resets,
     defCalls |-> defCalls, rect |-> rect]

\* st: [hit, blocked, result]: lastHitTestResult, mouseLeaveBlocked, *result
NotHandled(st, env) ==
    Outcome(FALSE, st.result, st.hit, st.blocked, <<>>, <<>>, 0, <<>>, env.calc.rect)

\* case WM_MOUSELEAVE
SnapMouseLeave(st, hWnd, wParam, env) ==
    IF (~isTaggedMessage(wParam))
           /\ isInSystemButtons(env, fromNativeLocalPosition(env, env.msgPos))
    THEN [NotHandled(st, env) EXCEPT !.handled = TRUE, !.result = WinFALSE,
                                     !.blocked = TRUE]
    ELSE [NotHandled(st, env) EXCEPT !.blocked = FALSE]

\* case WM_MOUSEMOVE clearing the flag without asking for the leave message
SnapMouseMove_NoTracking(st, hWnd, env) ==
    IF st.hit # "ChromeButton" /\ st.blocked
    THEN [NotHandled(st, env) EXCEPT !.blocked = FALSE]
    ELSE NotHandled(st, env)

\* case WM_MOUSEMOVE
SnapMouseMove(st, hWnd, env) ==
    IF st.hit # "ChromeButton" /\ st.blocked
    THEN [NotHandled(st, env) EXCEPT !.blocked = FALSE,
                                     !.tracked = requestForMouseLeaveMessage(hWnd, FALSE)]
    ELSE NotHandled(st, env)

\* the non-client mouse kinds without the reset of the classification that
\* the move makes
SnapNcMouse_KeepsHit(st, hWnd, message, wParam, lParam, env) ==
    LET isMove == message = WM_NCMOUSEMOVE
        posted1 == IF isMove /\ st.hit # "ChromeButton" /\ st.blocked
                   THEN emulateClientAreaMessage(hWnd, message, wParam, lParam,
                                                 <<WM_NCMOUSELEAVE>>, env)
                   ELSE <<>>
    IN  IF st.hit = "ChromeButton"
        THEN Outcome(TRUE,
                     IF isMove THEN env.defMove
                     ELSE IF (message >= WM_NCXBUTTONDOWN) /\ (message <= WM_NCXBUTTONDBLCLK)
                          THEN WinTRUE ELSE WinFALSE,
                     st.hit, st.blocked,
                     emulateClientAreaMessage(hWnd, message, wParam, lParam, <<>>, env),
                     <<>>, 0, IF isMove THEN <<WM_NCMOUSEMOVE>> ELSE <<>>, env.calc.rect)
        ELSE Outcome(FALSE, st.result, st.hit, st.blocked, posted1, <<>>,
                     IF isMove THEN 1 ELSE 0, <<>>, env.calc.rect)

\* the non-client mouse kinds without the reset of the grabbed control
SnapNcMouse_NoGrabReset(st, hWnd, message, wParam, lParam, env) ==
    LET isMove == message = WM_NCMOUSEMOVE
        posted1 == IF isMove /\ st.hit # "ChromeButton" /\ st.blocked
                   THEN emulateClientAreaMessage(hWnd, message, wParam, lParam,
                                                 <<WM_NCMOUSELEAVE>>, env)
                   ELSE <<>>
        hit1 == IF isMove THEN "Outside" ELSE st.hit
    IN  IF st.hit = "ChromeButton"
        THEN Outcome(TRUE,
                     IF isMove THEN env.defMove
                     ELSE IF (message >= WM_NCXBUTTONDOWN) /\ (message <= WM_NCXBUTTONDBLCLK)
                          THEN WinTRUE ELSE WinFALSE,
                     hit1, st.blocked,
                     emulateClientAreaMessage(hWnd, message, wParam, lParam, <<>>, env),
                     <<>>, 0, IF isMove THEN <<WM_NCMOUSEMOVE>> ELSE <<>>, env.calc.rect)
        ELSE Outcome(FALSE, st.result, hit1, st.blocked, posted1, <<>>, 0, <<>>,
                     env.calc.rect)

\* the non-client mouse kinds with result 0 for every kind but the move
SnapNcMouse_ZeroForXButtons(st, hWnd, message, wParam, lParam, env) ==
    LET isMove == message = WM_NCMOUSEMOVE
        resets1 == IF isMove /\ st.hit # "ChromeButton" THEN 1 ELSE 0
        posted1 == IF isMove /\ st.hit # "ChromeButton" /\ st.blocked
                   THEN emulateClientAreaMessage(hWnd, message, wParam, lParam,
                                                 <<WM_NCMOUSELEAVE>>, env)
                   ELSE <<>>
        hit1 == IF isMove THEN "Outside" ELSE st.hit
    IN  IF st.hit = "ChromeButton"
        THEN Outcome(TRUE, IF isMove THEN env.defMove ELSE WinFALSE,
                     hit1, st.blocked,
                     emulateClientAreaMessage(hWnd, message, wParam, lParam, <<>>, env),
                     <<>>, 0, IF isMove THEN <<WM_NCMOUSEMOVE>> ELSE <<>>, env.calc.rect)
        ELSE Outcome(FALSE, st.result, hit1, st.blocked, posted1, <<>>, resets1, <<>>,
                     env.calc.rect)

\* the non-client mouse cases classifying the hit-test code the move carries
\* instead of resetting the classification to Outside
SnapNcMouse_ClassifiesMove(st, hWnd, message, wParam, lParam, env) ==
    LET currentWindowPart == st.hit
        isMove == message = WM_NCMOUSEMOVE
        resets1 == IF isMove /\ currentWindowPart # "ChromeButton" THEN 1 ELSE 0
        posted1 == IF isMove /\ currentWindowPart # "ChromeButton" /\ st.blocked
                   THEN emulateClientAreaMessage(hWnd, message, wParam, lParam,
                                                 <<WM_NCMOUSELEAVE>>, env)
                   ELSE <<>>
        hit1 == IF isMove THEN getHitWindowPart(LOWORD(wParam)) ELSE st.hit
    IN  IF currentWindowPart = "ChromeButton"
        THEN Outcome(TRUE,
                     IF isMove THEN env.defMove
                     ELSE IF (message >= WM_NCXBUTTONDOWN) /\ (message <= WM_NCXBUTTONDBLCLK)
                          THEN WinTRUE ELSE WinFALSE,
                     hit1, st.blocked,
                     posted1 \o emulateClientAreaMessage(hWnd, message, wParam, lParam,
                                                         <<>>, env),
                     <<>>, resets1,
                     IF isMove THEN <<WM_NCMOUSEMOVE>> ELSE <<>>,
                     env.calc.rect)
        ELSE Outcome(FALSE, st.result, hit1, st.blocked, posted1, <<>>, resets1, <<>>,
                     env.calc.rect)

\* case WM_NCMOUSEMOVE ... WM_NCMOUSEHOVER
SnapNcMouse(st, hWnd, message, wParam, lParam, env) ==
    LET currentWindowPart == st.hit
        isMove == message = WM_NCMOUSEMOVE
        resets1 == IF isMove /\ currentWindowPart # "ChromeButton" THEN 1 ELSE 0
        posted1 == IF isMove /\ currentWindowPart # "ChromeButton" /\ st.blocked
                   THEN emulateClientAreaMessage(hWnd, message, wParam, lParam,
                                                 <<WM_NCMOUSELEAVE>>, env)
                   ELSE <<>>
        hit1 == IF isMove THEN "Outside" ELSE st.hit
    IN  IF currentWindowPart = "ChromeButton"
        THEN Outcome(TRUE,
                     IF isMove THEN env.defMove
                     ELSE IF (message >= WM_NCXBUTTONDOWN) /\ (message <= WM_NCXBUTTONDBLCLK)
                          THEN WinTRUE ELSE WinFALSE,
                     hit1, st.blocked,
                     posted1 \o emulateClientAreaMessage(hWnd, message, wParam, lParam,
                                                         <<>>, env),
                     <<>>, resets1,
                     IF isMove THEN <<WM_NCMOUSEMOVE>> ELSE <<>>,
                     env.calc.rect)
        ELSE Outcome(FALSE, st.result, hit1, st.blocked, posted1, <<>>, resets1, <<>>,
                     env.calc.rect)

\* case WM_NCMOUSELEAVE without the emulated leave outside a chrome button
SnapNcMouseLeave_NoEmulation(st, hWnd, message, wParam, lParam, env) ==
    IF st.hit = "ChromeButton" /\ st.blocked
    THEN [NotHandled(st, env) EXCEPT !.blocked = FALSE,
              !.tracked = requestForMouseLeaveMessage(hWnd, FALSE)]
    ELSE [NotHandled(st, env) EXCEPT
              !.resets = IF st.hit = "Outside" THEN 1 ELSE 0]

\* case WM_NCMOUSELEAVE emulating the leave whether or not one was suppressed
SnapNcMouseLeave_AlwaysEmulates(st, hWnd, message, wParam, lParam, env) ==
    IF st.hit = "ChromeButton"
    THEN IF st.blocked
         THEN [NotHandled(st, env) EXCEPT !.blocked = FALSE,
                   !.tracked = requestForMouseLeaveMessage(hWnd, FALSE)]
         ELSE NotHandled(st, env)
    ELSE [NotHandled(st, env) EXCEPT
              !.posted = emulateClientAreaMessage(hWnd, message, wParam, lParam,
                                                  <<WM_NCMOUSELEAVE>>, env),
              !.resets = IF st.hit = "Outside" THEN 1 ELSE 0]

\* case WM_NCMOUSELEAVE
SnapNcMouseLeave(st, hWnd, message, wParam, lParam, env) ==
    LET currentWindowPart == st.hit
    IN  IF currentWindowPart = "ChromeButton"
        THEN IF st.blocked
             THEN [NotHandled(st, env) EXCEPT !.blocked = FALSE,
                       !.tracked = requestForMouseLeaveMessage(hWnd, FALSE)]
             ELSE NotHandled(st, env)
        ELSE [NotHandled(st, env) EXCEPT
                  !.posted = IF st.blocked
                             THEN emulateClientAreaMessage(hWnd, message, wParam, lParam,
                                                           <<WM_NCMOUSELEAVE>>, env)
                             ELSE <<>>,
                  !.resets = IF currentWindowPart = "Outside" THEN 1 ELSE 0]

NcMouseMessages ==
    {WM_NCMOUSEMOVE, WM_NCLBUTTONDOWN, WM_NCLBUTTONUP, WM_NCLBUTTONDBLCLK,
     WM_NCRBUTTONDOWN, WM_NCRBUTTONUP, WM_NCRBUTTONDBLCLK,
     WM_NCMBUTTONDOWN, WM_NCMBUTTONUP, WM_NCMBUTTONDBLCLK,
     WM_NCXBUTTONDOWN, WM_NCXBUTTONUP, WM_NCXBUTTONDBLCLK, WM_NCMOUSEHOVER}

snapLayoutHandler(st, hWnd, message, wParam, lParam, env) ==
    CASE message = WM_MOUSELEAVE -> SnapMouseLeave(st, hWnd, wParam, env)
      [] message = WM_MOUSEMOVE -> SnapMouseMove(st, hWnd, env)
      [] message \in NcMouseMessages -> SnapNcMouse(st, hWnd, message, wParam, lParam, env)
      [] message = WM_NCMOUSELEAVE -> SnapNcMouseLeave(st, hWnd, message, wParam, lParam, env)
      [] OTHER -> NotHandled(st, env)

\* ---------------------------------------------------- customWindowHandler
ABE_LEFT == 0
ABE_TOP == 1
ABE_RIGHT == 2
ABE_BOTTOM == 3

isWin10OrGreater(os) == os = "Win10"
isWin8Point1OrGreater(os) == os \in {"Win8_1", "Win10"}

\* ::DefWindowProcW(hWnd, WM_NCCALCSIZE, ...): the OS moves each edge of the
\* proposed rectangle inward by the default frame (env.calc.defInsets) and
\* returns env.calc.defRes
DefNcCalcSizeRect(r, c) ==
    [left |-> r.left + c.defInsets.left, top |-> r.top + c.defInsets.top,
     right |-> r.right - c.defInsets.right, bottom |-> r.bottom - c.defInsets.bottom]

\* the correction of a maximized window moving every edge on every OS version
MaximizedCorrection_AllEdges(r, c, os) ==
    IF c.max /\ ~c.full
    THEN [left |-> r.left + c.frameSize, top |-> r.top + c.frameSize,
          right |-> r.right - c.frameSize, bottom |-> r.bottom - c.frameSize]
    ELSE r

\* lines 895-909: the resize-border correction of a maximized window
MaximizedCorrection(r, c, os) ==
    IF c.max /\ ~c.full
    THEN LET frameSize == c.frameSize
         IN  IF ~isWin10OrGreater(os)
             THEN [left |-> r.left + frameSize, top |-> r.top + frameSize,
                   right |-> r.right - frameSize, bottom |-> r.bottom - frameSize]
             ELSE [r EXCEPT !.top = r.top + frameSize]
    ELSE r

\* lines 923-960: the edges found to hold an auto-hide taskbar.
\* c.edges: the edges ABM_GETAUTOHIDEBAREX reports a bar for; c.sameMonitor and
\* c.taskbarEdge: the answers of the older heuristic
AutoHideEdges(c, os) ==
    IF isWin8Point1OrGreater(os)
    THEN [top |-> ABE_TOP \in c.edges, bottom |-> ABE_BOTTOM \in c.edges,
          left |-> ABE_LEFT \in c.edges, right |-> ABE_RIGHT \in c.edges]
    ELSE LET edge == IF c.sameMonitor THEN c.taskbarEdge ELSE -1
         IN  [top |-> edge = ABE_TOP, bottom |-> edge = ABE_BOTTOM,
              left |-> edge = ABE_LEFT, right |-> edge = ABE_RIGHT]

\* the auto-hide correction moving every edge a taskbar was found on
AutoHideCorrection_EveryEdge(r, c, os) ==
    IF (c.max \/ c.full) /\ c.autoHide
    THEN LET e == AutoHideEdges(c, os)
         IN  [left |-> IF e.left THEN r.left + kAutoHideTaskBarThickness ELSE r.left,
              top |-> IF e.top THEN r.top + kAutoHideTaskBarThickness ELSE r.top,
              right |-> IF e.right THEN r.right - kAutoHideTaskBarThickness ELSE r.right,
              bottom |-> IF e.bottom THEN r.bottom - kAutoHideTaskBarThickness ELSE r.bottom]
    ELSE r

\* lines 916-982: the auto-hide taskbar correction
AutoHideCorrection(r, c, os) ==
    IF (c.max \/ c.full) /\ c.autoHide
    THEN LET e == AutoHideEdges(c, os)
         IN  IF e.top THEN [r EXCEPT !.top = r.top + kAutoHideTaskBarThickness]
             ELSE IF e.bottom THEN [r EXCEPT !.bottom = r.bottom - kAutoHideTaskBarThickness]
             ELSE IF e.left THEN [r EXCEPT !.left = r.left + kAutoHideTaskBarThickness]
             ELSE IF e.right THEN [r EXCEPT !.right = r.right - kAutoHideTaskBarThickness]
             ELSE r
    ELSE r

\* case WM_NCCALCSIZE. env.calc.rect is the rectangle lParam points to
\* (rgrc[0] of the NCCALCSIZE_PARAMS when wParam is not FALSE)
\* prev: what snapLayoutHandler, which did not handle the message, left
NcCalcSize(prev, wParam, env, os) ==
    LET c == env.calc
        early == isWin10OrGreater(os) /\ c.defRes # HTERROR /\ c.defRes # HTNOWHERE
        defCalls == IF isWin10OrGreater(os) THEN <<WM_NCCALCSIZE>> ELSE <<>>
    IN  IF early
        THEN [prev EXCEPT !.handled = TRUE, !.result = c.defRes,
                          !.defCalls = @ \o defCalls,
                          !.rect = DefNcCalcSizeRect(c.rect, c)]
        ELSE [prev EXCEPT !.handled = TRUE,
                          !.result = IF wParam = Word0 THEN WinFALSE ELSE WVR_REDRAW,
                          !.defCalls = @ \o defCalls,
                          !.rect = AutoHideCorrection(
                                       MaximizedCorrection(
                                           IF isWin10OrGreater(os)
                                           THEN [DefNcCalcSizeRect(c.rect, c)
                                                     EXCEPT !.top = c.rect.top]
                                           ELSE c.rect,
                                           c, os),
                                       c, os)]

customWindowHandler(prev, hWnd, message, wParam, lParam, env, os) ==
    IF message = WM_NCCALCSIZE THEN NcCalcSize(prev, wParam, env, os)
    ELSE [prev EXCEPT !.handled = FALSE]

\* -------------------------------------------------------------- windowProc
TeardownMessages ==
    {WM_CLOSE, WM_DESTROY, WM_NCDESTROY, WM_UAHDESTROYWINDOW, WM_UNREGISTER_WINDOW_SERVICES}

\* windowProc without the assignment of FALSE to *result at its start
windowProc_ResultNotReset(st, hWnd, message, wParam, lParam, env, os) ==
    LET snap == snapLayoutHandler(st, hWnd, message, wParam, lParam, env)
    IN  IF message \in TeardownMessages THEN NotHandled(st, env)
        ELSE IF ~env.valid THEN NotHandled(st, env)
        ELSE IF snap.handled THEN snap
        ELSE customWindowHandler(snap, hWnd, message, wParam, lParam, env, os)

\* windowProc without the validity check of the window
windowProc_NoValidityCheck(st, hWnd, message, wParam, lParam, env, os) ==
    LET st0 == [st EXCEPT !.result = WinFALSE]
        snap == snapLayoutHandler(st0, hWnd, message, wParam, lParam, env)
    IN  IF message \in TeardownMessages THEN NotHandled(st0, env)
        ELSE IF snap.handled THEN snap
        ELSE customWindowHandler(snap, hWnd, message, wParam, lParam, env, os)

\* env.valid: isValidWindow(windowId, false, true)
windowProc(st, hWnd, message, wParam, lParam, env, os) ==
    LET st0 == [st EXCEPT !.result = WinFALSE]
        snap == snapLayoutHandler(st0, hWnd, message, wParam, lParam, env)
    IN  IF message \in TeardownMessages THEN NotHandled(st0, env)
        ELSE IF ~env.valid THEN NotHandled(st0, env)
        ELSE IF snap.handled THEN snap
        ELSE customWindowHandler(snap, hWnd, message, wParam, lParam, env, os)

\* ------------------------------------------------------------------- state
Ctxs == 1..NumCtx
Hwnds == 1..NumHwnd

VARIABLES
    os,                  \* the OS version (QOperatingSystemVersion::current())
    alive,               \* [Ctxs -> BOOLEAN]: the context exists (not yet destroyed)
    windowId,            \* [Ctxs -> Hwnds \cup {0}]: Win32WindowContext::windowId
    lastHitTestResult,   \* [Ctxs -> WindowPart]
    mouseLeaveBlocked,   \* [Ctxs -> BOOLEAN]
    g_wndProcHash,       \* [Hwnds -> Ctxs \cup {0}]: 0 is "no entry"
    g_qtWindowProc,      \* "nullptr", or the procedure recorded: "qt" or "hook"
    instance,            \* WindowsNativeEventFilter::instance: 0 is nullptr
    nativeFilters,       \* the filter objects installed in qApp
    installs,            \* the number of filter objects created so far
    wndProcOf,           \* [Hwnds -> {"qt", "hook"}]: GWLP_WNDPROC of each window
    lastMessageHandled,  \* WindowsNativeEventFilter::lastMessageHandled
    lastMessageResult,   \* WindowsNativeEventFilter::lastMessageResult
    queue,               \* the thread's queue of posted messages
    pendingInput,        \* the messages the OS is about to send, each [m, env]
    m_hitTestVisibleItems,  \* [Ctxs -> SUBSET Objects]
    m_hitTestVisibleRects,  \* [Ctxs -> Seq(QRect)]
    m_systemButtons,        \* [Ctxs -> [SystemButtons -> Objects \cup {0}]]: 0 is nullptr
    m_titleBar,             \* [Ctxs -> Objects \cup {0}]
    step                 \* what the last operation was given and what it did
                         \* (prev: the operation before it, for setup and destroy)

vars == <<os, alive, windowId, lastHitTestResult, mouseLeaveBlocked, g_wndProcHash,
          g_qtWindowProc, instance, nativeFilters, installs, wndProcOf,
          lastMessageHandled, lastMessageResult, queue, pendingInput,
          m_hitTestVisibleItems, m_hitTestVisibleRects, m_systemButtons, m_titleBar, step>>

ctxVars == <<alive, windowId, lastHitTestResult, mouseLeaveBlocked>>
hookVars == <<g_wndProcHash, g_qtWindowProc, instance, nativeFilters, installs, wndProcOf>>
filterVars == <<lastMessageHandled, lastMessageResult>>
regVars == <<m_hitTestVisibleItems, m_hitTestVisibleRects, m_systemButtons, m_titleBar>>

\* ------------------------------------------------------ environment answers
Rect(l, t, r, b) == [left |-> l, top |-> t, right |-> r, bottom |-> b]

CalcDefault ==
    [rect |-> Rect(-8, -8, 1928, 1048), defRes |-> HTNOWHERE, defInsets |-> Rect(0, 0, 0, 0),
     max |-> FALSE, full |-> FALSE, frameSize |-> 8, autoHide |-> FALSE,
     edges |-> {}, sameMonitor |-> FALSE, taskbarEdge |-> ABE_BOTTOM]

EnvDefault ==
    [valid |-> TRUE, keys |-> {}, swapped |-> FALSE, origin |-> [x |-> 0, y |-> 0],
     msgPos |-> [x |-> 0, y |-> 0], dpr |-> 1, buttons |-> {},
     defMove |-> 0, calc |-> CalcDefault]

\* the objects an application registers (non-null QObject pointers; 0 is
\* nullptr) and the roles of the system buttons
Objects == {1, 2}
SystemButtons == {"Minimize", "Close"}

\* the four registration fields of the contexts, as a value
RegSnapshot ==
    [items |-> m_hitTestVisibleItems, rects |-> m_hitTestVisibleRects,
     buttons |-> m_systemButtons, titleBar |-> m_titleBar]

\* the registration fields of freshly constructed contexts
RegConstructed ==
    /\ m_hitTestVisibleItems = [c \in Ctxs |-> {}]
    /\ m_hitTestVisibleRects = [c \in Ctxs |-> <<>>]
    /\ m_systemButtons = [c \in Ctxs |-> [b \in SystemButtons |-> 0]]
    /\ m_titleBar = [c \in Ctxs |-> 0]

Snapshot ==
    [hash |-> g_wndProcHash, qtProc |-> g_qtWindowProc, instance |-> instance,
     filters |-> nativeFilters, installs |-> installs, wndProcOf |-> wndProcOf,
     windowId |-> windowId, alive |-> alive,
     handled |-> lastMessageHandled, result |-> lastMessageResult]

NoOutcome == Outcome(FALSE, WinFALSE, "Outside", FALSE, <<>>, <<>>, 0, <<>>, CalcDefault.rect)

StepInit ==
    [op |-> "init", ctx |-> 0, hwnd |-> 0, source |-> "none",
     message |-> 0, wParam |-> Word0, lParam |-> Word0, env |-> EnvDefault,
     pre |-> [hit |-> "Outside", blocked |-> FALSE, result |-> WinFALSE],
     out |-> NoOutcome, forwarded |-> "none", uninstalls |-> 0, before |-> <<>>,
     prev |-> <<>>, consulted |-> <<>>,
     args |-> <<>>, assertsOn |-> FALSE, aborted |-> FALSE, ret |-> FALSE]

\* ------------------------------------------------- WindowsNativeEventFilter
\* nativeEventFilter: what the filter answers when Qt consults it, from the
\* two statics alone (hasResult: the result pointer Qt passes is not null)
nativeEventFilter(hasResult, handled, result) ==
    IF ~hasResult THEN [handled |-> FALSE, result |-> WinFALSE]
    ELSE IF handled THEN [handled |-> TRUE, result |-> result]
    ELSE [handled |-> FALSE, result |-> WinFALSE]

\* Qt's window procedure passes the message to every installed global native
\* event filter: the answers it gets, given the statics at that moment
QtConsults(filters, handled, result) ==
    IF filters = {} THEN <<>> ELSE <<nativeEventFilter(TRUE, handled, result)>>

\* What a call of windowProc through a registry entry whose context has been
\* destroyed can do (the behaviour is undefined): any handled flag with any
\* result, and the procedure may or may not get as far as forwarding.
DanglingOutcomes ==
    [handled : BOOLEAN, result : {WinFALSE, WVR_REDRAW}, forwards : BOOLEAN]

\* ------------------------------------------------------- QWKHookedWndProc
\* messages put in front of the ones already queued
PostMessageW_InFront(queued, posted) == posted \o queued

\* SEND_MESSAGE is ::PostMessageW: the messages a handler emits are appended
\* to the thread's queue, behind the ones already there, and the call returns
PostMessageW(queued, posted) == queued \o posted

\* a lookup that falls back on the first context when the handle has no entry
ContextOf_NeverMisses(hWnd) ==
    IF g_wndProcHash[hWnd] # 0 THEN g_wndProcHash[hWnd] ELSE 1

\* g_wndProcHash->value(hWnd): the context of the handle, 0 (null) if absent
ContextOf(hWnd) == g_wndProcHash[hWnd]

\* The replacement window procedure receives m with the environment answering
\* env; rest is the queue once m has been taken from it (the queue itself for
\* a message that did not come from the queue); hist is what the history
\* variable keeps of the step before this one.
QWKHookedWndProc(m, env, source, rest, hist) ==
    LET ctx == ContextOf(m.hwnd)
    IN  /\ wndProcOf[m.hwnd] = "hook"
        /\ IF ctx = 0
           THEN /\ queue' = rest
                /\ step' = [StepInit EXCEPT !.op = "message", !.hwnd = m.hwnd,
                                !.source = source, !.message = m.message,
                                !.wParam = m.wParam, !.lParam = m.lParam, !.env = env,
                                !.pre = [hit |-> "Outside", blocked |-> FALSE,
                                         result |-> lastMessageResult],
                                !.out = [NoOutcome EXCEPT !.result = lastMessageResult,
                                                          !.handled = lastMessageHandled],
                                !.forwarded = "DefWindowProcW", !.prev = hist]
                /\ UNCHANGED <<lastHitTestResult, mouseLeaveBlocked, filterVars>>
           ELSE IF ~alive[ctx]
           THEN \E o \in DanglingOutcomes :
                /\ queue' = rest
                /\ step' = [StepInit EXCEPT !.op = "message", !.ctx = ctx,
                                !.hwnd = m.hwnd, !.source = source,
                                !.message = m.message, !.wParam = m.wParam,
                                !.lParam = m.lParam, !.env = env,
                                !.pre = [hit |-> "Outside", blocked |-> FALSE,
                                         result |-> lastMessageResult],
                                !.out = [NoOutcome EXCEPT !.result = o.result,
                                                          !.handled = o.handled],
                                !.forwarded = IF o.forwards THEN g_qtWindowProc
                                              ELSE "none",
                                !.prev = hist,
                                !.consulted = IF o.forwards /\ g_qtWindowProc = "qt"
                                              THEN QtConsults(nativeFilters, o.handled,
                                                              o.result)
                                              ELSE <<>>]
                /\ lastMessageHandled' = o.handled
                /\ lastMessageResult' = o.result
                /\ UNCHANGED <<lastHitTestResult, mouseLeaveBlocked>>
           ELSE LET st == [hit |-> lastHitTestResult[ctx],
                           blocked |-> mouseLeaveBlocked[ctx],
                           result |-> lastMessageResult]
                IN  \E out \in {windowProc(st, m.hwnd, m.message, m.wParam, m.lParam,
                                             env, os)} :
                    /\ Len(rest \o out.posted) <= MaxQueue
                    /\ step' = [StepInit EXCEPT !.op = "message", !.ctx = ctx,
                                    !.hwnd = m.hwnd, !.source = source,
                                    !.message = m.message, !.wParam = m.wParam,
                                    !.lParam = m.lParam, !.env = env, !.pre = st,
                                    !.out = out,
                                    !.forwarded = g_qtWindowProc, !.prev = hist,
                                    !.consulted = IF g_qtWindowProc = "qt"
                                                  THEN QtConsults(nativeFilters,
                                                                  out.handled, out.result)
                                                  ELSE <<>>]
                    /\ queue' = PostMessageW(rest, out.posted)
                    /\ lastHitTestResult' = [lastHitTestResult EXCEPT ![ctx] = out.hit]
                    /\ mouseLeaveBlocked' = [mouseLeaveBlocked EXCEPT ![ctx] = out.blocked]
                    /\ lastMessageHandled' = out.handled
                    /\ lastMessageResult' = out.result
        /\ UNCHANGED <<os, regVars, alive, windowId, hookVars>>

\* a message the OS generates arrives at window m.hwnd
DeliverExternal(m, env) ==
    /\ QWKHookedWndProc(m, env, "external", queue, <<>>)
    /\ UNCHANGED pendingInput

\* the message at the head of the queue is dispatched
DeliverPosted(env) ==
    /\ queue # <<>>
    /\ QWKHookedWndProc(Head(queue), env, "posted", Tail(queue), <<>>)
    /\ UNCHANGED pendingInput

\* A message arrives at window m.hwnd while the window still has Qt's own
\* window procedure: the hook does not run, Qt dispatches the message and
\* consults the installed global filter, which answers from its statics.
QtWindowProc(m) ==
    /\ wndProcOf[m.hwnd] = "qt"
    /\ step' = [StepInit EXCEPT !.op = "message", !.hwnd = m.hwnd, !.source = "external",
                    !.message = m.message, !.wParam = m.wParam, !.lParam = m.lParam,
                    !.pre = [hit |-> "Outside", blocked |-> FALSE,
                             result |-> lastMessageResult],
                    !.consulted = QtConsults(nativeFilters, lastMessageHandled,
                                             lastMessageResult)]
    /\ UNCHANGED <<os, regVars, alive, windowId, lastHitTestResult, mouseLeaveBlocked, hookVars,
                   filterVars, queue, pendingInput>>

\* the next of the messages chosen in the initial state is sent; the history
\* keeps the step of the one sent just before it
DeliverPending ==
    /\ pendingInput # <<>>
    /\ QWKHookedWndProc(pendingInput[1].m, pendingInput[1].env, "external", queue,
                        IF step.op = "message" THEN <<[step EXCEPT !.prev = <<>>]>>
                        ELSE <<>>)
    /\ pendingInput' = Tail(pendingInput)

\* The classification of the last hit test is recorded for context c. The
\* handler of the hit-test message is not among the source files; the update
\* is the one the specification describes ("a fresh classification follows on
\* the next hit-test message").
HitTestUpdate(c, code) ==
    /\ alive[c]
    /\ windowId[c] # 0
    /\ lastHitTestResult' = [lastHitTestResult EXCEPT ![c] = getHitWindowPart(code)]
    /\ step' = [StepInit EXCEPT !.op = "hittest", !.ctx = c, !.hwnd = windowId[c],
                    !.message = WM_NCHITTEST, !.args = <<code>>,
                    !.pre = [hit |-> lastHitTestResult[c], blocked |-> mouseLeaveBlocked[c],
                             result |-> lastMessageResult],
                    !.out = [NoOutcome EXCEPT !.hit = getHitWindowPart(code),
                                              !.blocked = mouseLeaveBlocked[c],
                                              !.result = lastMessageResult,
                                              !.handled = lastMessageHandled]]
    /\ UNCHANGED <<os, regVars, alive, windowId, mouseLeaveBlocked, hookVars, filterVars, queue,
                   pendingInput>>

\* ------------------------------------------------- registration operations
\* What the history keeps of a registration call. Q_ASSERT ends the process
\* in a build with assertions (assertsOn) when its condition is false: the
\* call is then aborted and never returns.
RegStep(op, c, args, assertsOn, aborted, ret) ==
    [StepInit EXCEPT !.op = op, !.ctx = c, !.args = args, !.assertsOn = assertsOn,
                     !.aborted = aborted, !.ret = ret, !.before = <<RegSnapshot>>]

\* a registration call that changes nothing: it was aborted by the assertion,
\* or it returned ret
RegNoChange(op, c, args, assertsOn, aborted, ret) ==
    /\ step' = RegStep(op, c, args, assertsOn, aborted, ret)
    /\ UNCHANGED regVars

\* AbstractWindowContext::setHitTestVisible(QObject *obj, bool visible)
setHitTestVisibleItem(c, obj, visible, assertsOn) ==
    /\ alive[c] /\ ~step.aborted
    /\ IF obj = 0
       THEN RegNoChange("setHitTestVisibleItem", c, <<obj, visible>>, assertsOn, assertsOn,
                        FALSE)
       ELSE /\ m_hitTestVisibleItems' =
                   [m_hitTestVisibleItems EXCEPT ![c] = IF visible THEN @ \cup {obj}
                                                        ELSE @ \ {obj}]
            /\ step' = RegStep("setHitTestVisibleItem", c, <<obj, visible>>, assertsOn,
                               FALSE, TRUE)
            /\ UNCHANGED <<m_hitTestVisibleRects, m_systemButtons, m_titleBar>>
    /\ UNCHANGED <<os, ctxVars, hookVars, filterVars, queue, pendingInput>>

\* setHitTestVisible(rect, false) removing the first equal entry only
setHitTestVisibleRect_RemovesOne(c, rect, visible, assertsOn) ==
    /\ alive[c] /\ ~step.aborted
    /\ IF ~isValid(rect)
       THEN RegNoChange("setHitTestVisibleRect", c, <<rect, visible>>, assertsOn, assertsOn,
                        FALSE)
       ELSE /\ visible => Len(m_hitTestVisibleRects[c]) < MaxRects
            /\ m_hitTestVisibleRects' =
                   [m_hitTestVisibleRects EXCEPT ![c] =
                        IF visible THEN Append(@, rect)
                        ELSE IF @ # <<>> /\ Head(@) = rect THEN Tail(@)
                        ELSE IF Len(@) > 1 /\ @[2] = rect THEN <<Head(@)>> \o Tail(Tail(@))
                        ELSE @]
            /\ step' = RegStep("setHitTestVisibleRect", c, <<rect, visible>>, assertsOn,
                               FALSE, TRUE)
            /\ UNCHANGED <<m_hitTestVisibleItems, m_systemButtons, m_titleBar>>
    /\ UNCHANGED <<os, ctxVars, hookVars, filterVars, queue, pendingInput>>

\* AbstractWindowContext::setHitTestVisible(const QRect &rect, bool visible)
setHitTestVisibleRect(c, rect, visible, assertsOn) ==
    /\ alive[c] /\ ~step.aborted
    /\ IF ~isValid(rect)
       THEN RegNoChange("setHitTestVisibleRect", c, <<rect, visible>>, assertsOn, assertsOn,
                        FALSE)
       ELSE /\ visible => Len(m_hitTestVisibleRects[c]) < MaxRects
            /\ m_hitTestVisibleRects' =
                   [m_hitTestVisibleRects EXCEPT ![c] =
                        IF visible THEN Append(@, rect)
                        ELSE SelectSeq(@, LAMBDA r : r # rect)]
            /\ step' = RegStep("setHitTestVisibleRect", c, <<rect, visible>>, assertsOn,
                               FALSE, TRUE)
            /\ UNCHANGED <<m_hitTestVisibleItems, m_systemButtons, m_titleBar>>
    /\ UNCHANGED <<os, ctxVars, hookVars, filterVars, queue, pendingInput>>

\* AbstractWindowContext::setSystemButton(SystemButton button, QObject *obj)
setSystemButton(c, button, obj, assertsOn) ==
    /\ alive[c] /\ ~step.aborted
    /\ IF obj = 0 \/ button = "Unknown"
       THEN RegNoChange("setSystemButton", c, <<button, obj>>, assertsOn, assertsOn, FALSE)
       ELSE IF m_systemButtons[c][button] = obj
       THEN RegNoChange("setSystemButton", c, <<button, obj>>, assertsOn, FALSE, FALSE)
       ELSE /\ m_systemButtons' = [m_systemButtons EXCEPT ![c][button] = obj]
            /\ step' = RegStep("setSystemButton", c, <<button, obj>>, assertsOn, FALSE, TRUE)
            /\ UNCHANGED <<m_hitTestVisibleItems, m_hitTestVisibleRects, m_titleBar>>
    /\ UNCHANGED <<os, ctxVars, hookVars, filterVars, queue, pendingInput>>

\* AbstractWindowContext::setTitleBar(QObject *item)
setTitleBar(c, item, assertsOn) ==
    /\ alive[c] /\ ~step.aborted
    /\ IF item = 0
       THEN RegNoChange("setTitleBar", c, <<item>>, assertsOn, assertsOn, FALSE)
       ELSE IF m_titleBar[c] = item
       THEN RegNoChange("setTitleBar", c, <<item>>, assertsOn, FALSE, FALSE)
       ELSE /\ m_titleBar' = [m_titleBar EXCEPT ![c] = item]
            /\ step' = RegStep("setTitleBar", c, <<item>>, assertsOn, FALSE, TRUE)
            /\ UNCHANGED <<m_hitTestVisibleItems, m_hitTestVisibleRects, m_systemButtons>>
    /\ UNCHANGED <<os, ctxVars, hookVars, filterVars, queue, pendingInput>>

\* ------------------------------------------------------ hook installation
\* setup() installing a filter whether or not one is installed
Setup_AlwaysInstalls(c, h) ==
    /\ alive[c]
    /\ g_qtWindowProc' = IF g_qtWindowProc = "nullptr" THEN wndProcOf[h] ELSE g_qtWindowProc
    /\ wndProcOf' = [wndProcOf EXCEPT ![h] = "hook"]
    /\ installs' = installs + 1
    /\ instance' = installs + 1
    /\ nativeFilters' = nativeFilters \cup {installs + 1}
    /\ windowId' = [windowId EXCEPT ![c] = h]
    /\ g_wndProcHash' = [g_wndProcHash EXCEPT ![h] = c]
    /\ step' = [StepInit EXCEPT !.op = "setup", !.ctx = c, !.hwnd = h,
                                !.before = <<Snapshot>>,
                                !.prev = <<step.op, step.ctx, step.hwnd>>]
    /\ UNCHANGED <<os, regVars, alive, lastHitTestResult, mouseLeaveBlocked, filterVars, queue,
                   pendingInput>>

\* setup() recording the window procedure it finds at every call
Setup_AlwaysRecords(c, h) ==
    /\ alive[c]
    /\ g_qtWindowProc' = wndProcOf[h]
    /\ wndProcOf' = [wndProcOf EXCEPT ![h] = "hook"]
    /\ IF instance = 0
       THEN /\ installs' = installs + 1
            /\ instance' = installs + 1
            /\ nativeFilters' = nativeFilters \cup {installs + 1}
       ELSE UNCHANGED <<instance, installs, nativeFilters>>
    /\ windowId' = [windowId EXCEPT ![c] = h]
    /\ g_wndProcHash' = [g_wndProcHash EXCEPT ![h] = c]
    /\ step' = [StepInit EXCEPT !.op = "setup", !.ctx = c, !.hwnd = h,
                                !.before = <<Snapshot>>,
                                !.prev = <<step.op, step.ctx, step.hwnd>>]
    /\ UNCHANGED <<os, regVars, alive, lastHitTestResult, mouseLeaveBlocked, filterVars, queue,
                   pendingInput>>

\* Win32WindowContext::setup() of context c while its QWindow's winId() is h
Setup(c, h) ==
    /\ alive[c]
    /\ g_qtWindowProc' = IF g_qtWindowProc = "nullptr" THEN wndProcOf[h] ELSE g_qtWindowProc
    /\ wndProcOf' = [wndProcOf EXCEPT ![h] = "hook"]
    /\ IF instance = 0
       THEN \* WindowsNativeEventFilter::install()
            /\ installs' = installs + 1
            /\ instance' = installs + 1
            /\ nativeFilters' = nativeFilters \cup {installs + 1}
       ELSE UNCHANGED <<instance, installs, nativeFilters>>
    /\ windowId' = [windowId EXCEPT ![c] = h]
    /\ g_wndProcHash' = [g_wndProcHash EXCEPT ![h] = c]
    /\ step' = [StepInit EXCEPT !.op = "setup", !.ctx = c, !.hwnd = h,
                                !.before = <<Snapshot>>,
                                !.prev = <<step.op, step.ctx, step.hwnd>>]
    /\ UNCHANGED <<os, regVars, alive, lastHitTestResult, mouseLeaveBlocked, filterVars, queue,
                   pendingInput>>

\* the destructor without the removal of the filter
Destroy_KeepsFilter(c) ==
    /\ alive[c]
    /\ alive' = [alive EXCEPT ![c] = FALSE]
    /\ g_wndProcHash' = IF windowId[c] # 0 THEN [g_wndProcHash EXCEPT ![windowId[c]] = 0]
                        ELSE g_wndProcHash
    /\ step' = [StepInit EXCEPT !.op = "destroy", !.ctx = c, !.hwnd = windowId[c],
                    !.before = <<Snapshot>>,
                    !.prev = <<step.op, step.ctx, step.hwnd>>]
    /\ UNCHANGED <<os, regVars, windowId, lastHitTestResult, mouseLeaveBlocked, g_qtWindowProc,
                   instance, nativeFilters, installs, wndProcOf, filterVars, queue,
                   pendingInput>>

\* the destructor also forgetting the recorded original procedure when the
\* registry becomes empty
Destroy_ForgetsOriginal(c) ==
    LET hWnd == windowId[c]
        removed == [g_wndProcHash EXCEPT ![hWnd] = 0]
        empty == \A h \in Hwnds : removed[h] = 0
    IN  /\ alive[c]
        /\ alive' = [alive EXCEPT ![c] = FALSE]
        /\ IF hWnd # 0
           THEN /\ g_wndProcHash' = removed
                /\ IF empty
                   THEN /\ nativeFilters' = nativeFilters \ {instance}
                        /\ instance' = 0
                        /\ g_qtWindowProc' = "nullptr"
                   ELSE UNCHANGED <<instance, nativeFilters, g_qtWindowProc>>
           ELSE UNCHANGED <<g_wndProcHash, instance, nativeFilters, g_qtWindowProc>>
        /\ step' = [StepInit EXCEPT !.op = "destroy", !.ctx = c, !.hwnd = hWnd,
                        !.uninstalls = IF hWnd # 0 /\ empty THEN 1 ELSE 0,
                        !.before = <<Snapshot>>,
                        !.prev = <<step.op, step.ctx, step.hwnd>>]
        /\ UNCHANGED <<os, regVars, windowId, lastHitTestResult, mouseLeaveBlocked,
                       installs, wndProcOf, filterVars, queue, pendingInput>>

\* Win32WindowContext::~Win32WindowContext() of context c
Destroy(c) ==
    LET hWnd == windowId[c]
        removed == [g_wndProcHash EXCEPT ![hWnd] = 0]
        empty == \A h \in Hwnds : removed[h] = 0
    IN  /\ alive[c]
        /\ alive' = [alive EXCEPT ![c] = FALSE]
        /\ IF hWnd # 0
           THEN /\ g_wndProcHash' = removed
                /\ IF empty
                   THEN \* WindowsNativeEventFilter::uninstall()
                        /\ nativeFilters' = nativeFilters \ {instance}
                        /\ instance' = 0
                   ELSE UNCHANGED <<instance, nativeFilters>>
           ELSE UNCHANGED <<g_wndProcHash, instance, nativeFilters>>
        /\ step' = [StepInit EXCEPT !.op = "destroy", !.ctx = c, !.hwnd = hWnd,
                        !.uninstalls = IF hWnd # 0 /\ empty THEN 1 ELSE 0,
                        !.before = <<Snapshot>>,
                        !.prev = <<step.op, step.ctx, step.hwnd>>]
        /\ UNCHANGED <<os, regVars, windowId, lastHitTestResult, mouseLeaveBlocked, g_qtWindowProc,
                       installs, wndProcOf, filterVars, queue, pendingInput>>

\* ------------------------------------------------------------ initial states
\* after the construction of the contexts, before any setup()
InitConstructed ==
    /\ alive = [c \in Ctxs |-> TRUE]
    /\ windowId = [c \in Ctxs |-> 0]
    /\ lastHitTestResult = [c \in Ctxs |-> "Outside"]
    /\ mouseLeaveBlocked = [c \in Ctxs |-> FALSE]
    /\ g_wndProcHash = [h \in Hwnds |-> 0]
    /\ g_qtWindowProc = "nullptr"
    /\ instance = 0
    /\ nativeFilters = {}
    /\ installs = 0
    /\ wndProcOf = [h \in Hwnds |-> "qt"]
    /\ lastMessageHandled = FALSE
    /\ lastMessageResult = WinFALSE
    /\ queue = <<>>
    /\ RegConstructed
    /\ step = StepInit

\* Context 1 was constructed and set up on window 1 (the state Setup(1, 1) leads
\* to from InitConstructed); its two fields and the filter's two statics hold
\* the given values.
Attached(hit, blocked, handled, result) ==
    /\ alive = [c \in Ctxs |-> TRUE]
    /\ windowId = [c \in Ctxs |-> IF c = 1 THEN 1 ELSE 0]
    /\ lastHitTestResult = [c \in Ctxs |-> IF c = 1 THEN hit ELSE "Outside"]
    /\ mouseLeaveBlocked = [c \in Ctxs |-> IF c = 1 THEN blocked ELSE FALSE]
    /\ g_wndProcHash = [h \in Hwnds |-> IF h = 1 THEN 1 ELSE 0]
    /\ g_qtWindowProc = "qt"
    /\ instance = 1
    /\ nativeFilters = {1}
    /\ installs = 1
    /\ wndProcOf = [h \in Hwnds |-> IF h = 1 THEN "hook" ELSE "qt"]
    /\ lastMessageHandled = handled
    /\ lastMessageResult = result
    /\ queue = <<>>
    /\ RegConstructed
    /\ step = StepInit

InitAttached == Attached("Outside", FALSE, FALSE, WinFALSE)

\* ------------------------------------------ the snap-layout state machine
\* the inputs of the state-machine specification: one window, every message
\* kind the handlers distinguish, the environment answers each kind reads
SmScreenPos == MakeWord32(300, 10)
SmOrigin == [x |-> 100, y |-> 50]
XButtonMessages == {WM_NCXBUTTONDOWN, WM_NCXBUTTONUP, WM_NCXBUTTONDBLCLK}

\* one system button, in scene coordinates, and three positions GetMessagePos
\* reports (screen coordinates): one whose coordinates, read as relative to
\* the window, are on the button; one on the button as the screen shows it
\* when the client origin is at SmOrigin; one far from it
SmButton == QRect(180, 0, 220, 30)
SmPosLocal == [x |-> 200, y |-> 10]
SmPosOnScreen == [x |-> 300, y |-> 60]
SmPosFar == [x |-> 500, y |-> 500]

\* the non-client mouse kinds of the state-machine specification: the move
\* and an extra-button kind (the single-message specification below sends
\* every kind)
SmNcKinds == {WM_NCMOUSEMOVE, WM_NCXBUTTONDOWN}

SmExternal ==
    {Msg(1, k, MakeWord32(HTCLOSE, 0), SmScreenPos) : k \in SmNcKinds \ XButtonMessages}
    \cup {Msg(1, k, MakeWord32(HTCLOSE, 1), SmScreenPos) : k \in SmNcKinds \cap XButtonMessages}
    \cup {Msg(1, k, Word0, Word0) :
            k \in {WM_NCMOUSELEAVE, WM_MOUSELEAVE, WM_NCHITTEST, WM_CLOSE}}
    \cup {Msg(1, WM_MOUSEMOVE, Word0, MakeWord32(200, -40))}
    \cup {Msg(1, WM_NCCALCSIZE, MakeWord32(w, 0), Word0) : w \in {WinFALSE, WinTRUE}}

SmEnvs(m) ==
    {[EnvDefault EXCEPT !.valid = v, !.msgPos = o, !.buttons = {SmButton},
                        !.defMove = d, !.keys = {VK_LBUTTON}, !.origin = SmOrigin,
                        !.calc = [CalcDefault EXCEPT !.max = mx, !.defRes = dr]] :
        v \in BOOLEAN,
        o \in (IF m.message = WM_MOUSELEAVE THEN {SmPosLocal, SmPosFar} ELSE {SmPosFar}),
        d \in {0},
        mx \in {TRUE},
        dr \in {HTNOWHERE}}

\* one hit-test code for each window part
SmHitCodes == {HTNOWHERE, HTCLIENT, HTZOOM, HTCAPTION, HTLEFT, HTBORDER}

External == \E m \in SmExternal : \E env \in SmEnvs(m) : DeliverExternal(m, env)

Posted == queue # <<>> /\ \E env \in SmEnvs(Head(queue)) : DeliverPosted(env)

HitTest == \E c \in Ctxs : \E code \in SmHitCodes : HitTestUpdate(c, code)

Init ==
    /\ os = "Win10"
    /\ pendingInput = <<>>
    /\ InitAttached

Next == External \/ Posted \/ HitTest

Spec == Init /\ [][Next]_vars

\* ------------------------------------------- the dispatched handlers alone
\* The messages of the state machine reach the attached context from its
\* state after construction and setup, with no code outside windowProc's
\* handlers acting on the context: no hit-test update.
NextDispatch == External \/ Posted

SpecDispatch == Init /\ [][NextDispatch]_vars

\* ------------------------------------------------ the geometry conversions
\* One native point, size or rectangle (left <= right, top <= bottom) with
\* coordinates of -1 .. MaxCoord is converted to the toolkit's type and back;
\* step.args holds the value, its conversion and the conversion back.
Coords == -1 .. MaxCoord

ConvertInputs ==
    {[kind |-> "point", value |-> [x |-> x, y |-> y]] : x \in Coords, y \in Coords}
    \cup {[kind |-> "size", value |-> [cx |-> x, cy |-> y]] : x \in Coords, y \in Coords}
    \cup {[kind |-> "rect", value |-> Rect(l, t, r, b)] :
            l \in Coords, t \in Coords, r \in Coords, b \in Coords}

InitConvert ==
    /\ os = "Win10"
    /\ \E i \in ConvertInputs :
           /\ i.kind = "rect" => i.value.left <= i.value.right /\ i.value.top <= i.value.bottom
           /\ pendingInput = <<i>>
    /\ InitConstructed

Converted(kind, value, there, back) ==
    /\ pendingInput # <<>>
    /\ pendingInput[1].kind = kind
    /\ pendingInput' = Tail(pendingInput)
    /\ step' = [StepInit EXCEPT !.op = kind, !.args = <<value, there, back>>]
    /\ UNCHANGED <<os, ctxVars, hookVars, filterVars, regVars, queue>>

ConvertPoint ==
    LET p == pendingInput[1].value
    IN  Converted("point", p, point2qpoint(p), qpoint2point(point2qpoint(p)))

ConvertSize ==
    LET z == pendingInput[1].value
    IN  Converted("size", z, size2qsize(z), qsize2size(size2qsize(z)))

ConvertRect ==
    LET r == pendingInput[1].value
    IN  Converted("rect", r, rect2qrect(r), qrect2rect(rect2qrect(r)))

NextConvert == ConvertPoint \/ ConvertSize \/ ConvertRect

SpecConvert == InitConvert /\ [][NextConvert]_vars

\* --------------------------------------------------- the hook installation
\* ------------------------------------------- the mouse over a valid window
\* The mouse messages that read or write mouseLeaveBlocked, under fair
\* delivery: a posted message is eventually dispatched; the synthesized leave
\* is eventually dispatched while the window is valid; the mouse eventually
\* leaves the non-client area of the window while it is valid.
LiveExternal ==
    {Msg(1, WM_NCMOUSEMOVE, MakeWord32(HTCLOSE, 0), SmScreenPos),
     Msg(1, WM_NCMOUSELEAVE, Word0, Word0),
     Msg(1, WM_MOUSELEAVE, Word0, Word0),
     Msg(1, WM_MOUSEMOVE, Word0, MakeWord32(200, -40))}

LiveHitCodes == {HTCLIENT, HTZOOM}

ExternalLive == \E m \in LiveExternal : \E env \in SmEnvs(m) : DeliverExternal(m, env)

HitTestLive == \E c \in Ctxs : \E code \in LiveHitCodes : HitTestUpdate(c, code)

PostedLeaveValid ==
    /\ queue # <<>>
    /\ Head(queue).message = WM_MOUSELEAVE
    /\ \E env \in SmEnvs(Head(queue)) : env.valid /\ DeliverPosted(env)

NcLeaveValid ==
    \E env \in SmEnvs(Msg(1, WM_NCMOUSELEAVE, Word0, Word0)) :
        env.valid /\ DeliverExternal(Msg(1, WM_NCMOUSELEAVE, Word0, Word0), env)

NextLive == ExternalLive \/ Posted \/ HitTestLive

SpecLive ==
    /\ Init
    /\ [][NextLive]_vars
    /\ WF_vars(Posted)
    /\ SF_vars(PostedLeaveValid)
    /\ SF_vars(NcLeaveValid)

\* ------------------------------------------------- setups and destructions
SetupAny == \E c \in Ctxs : \E h \in Hwnds : Setup(c, h)

DestroyAny == \E c \in Ctxs : Destroy(c)

InitHook ==
    /\ os = "Win10"
    /\ pendingInput = <<>>
    /\ InitConstructed

NextHook == SetupAny \/ DestroyAny

SpecHook == InitHook /\ [][NextHook]_vars

\* ------------------------------------------------------ hit-test classifier
\* A hit test with any code of the range the OS uses (HTERROR, HTTRANSPARENT,
\* HTNOWHERE ... HTHELP, and a few beyond) is classified for the attached
\* context, from each state of the context.
HitCodeRange == HTERROR .. (HTHELP + 3)

InitClassify ==
    /\ os = "Win10"
    /\ pendingInput = <<>>
    /\ \E hit \in WindowPart : \E blocked \in BOOLEAN : Attached(hit, blocked, FALSE, WinFALSE)

NextClassify == \E code \in HitCodeRange : HitTestUpdate(1, code)

SpecClassify == InitClassify /\ [][NextClassify]_vars

\* ----------------------------------------------------------- registrations
\* The application registers and unregisters items, rectangles, system
\* buttons and the title bar of one context, with valid and invalid
\* arguments, in a build with assertions and in a build without.
RegRects == {QRect(0, 0, 9, 9), QRect(5, 5, 5, 5), QRect(0, 0, -1, -1), QRect(10, 0, 5, 20)}

RegButtons == SystemButtons \cup {"Unknown"}

RegItem ==
    \E obj \in Objects \cup {0} : \E visible \in BOOLEAN : \E assertsOn \in BOOLEAN :
        setHitTestVisibleItem(1, obj, visible, assertsOn)

RegRect ==
    \E rect \in RegRects : \E visible \in BOOLEAN : \E assertsOn \in BOOLEAN :
        setHitTestVisibleRect(1, rect, visible, assertsOn)

RegButton ==
    \E button \in RegButtons : \E obj \in Objects \cup {0} : \E assertsOn \in BOOLEAN :
        setSystemButton(1, button, obj, assertsOn)

RegTitleBar ==
    \E item \in Objects \cup {0} : \E assertsOn \in BOOLEAN : setTitleBar(1, item, assertsOn)

InitReg ==
    /\ os = "Win10"
    /\ pendingInput = <<>>
    /\ InitConstructed

NextReg == RegItem \/ RegRect \/ RegButton \/ RegTitleBar

SpecReg == InitReg /\ [][NextReg]_vars

\* ------------------------------------------- messages during the lifecycle
\* One context is set up, on any of the windows and possibly again after its
\* window handle changed, and destroyed, while messages keep arriving at the
\* windows: at a window that has the replacement procedure (with or without
\* a registry entry) and at a window that still has Qt's procedure.
LifeMessages ==
    {Msg(h, WM_NCCALCSIZE, MakeWord32(WinTRUE, 0), Word0) : h \in Hwnds}
    \cup {Msg(h, WM_CLOSE, Word0, Word0) : h \in Hwnds}

LifeEnv == [EnvDefault EXCEPT !.calc = [CalcDefault EXCEPT !.max = TRUE]]

LifeHooked == \E m \in LifeMessages : DeliverExternal(m, LifeEnv)

LifeUnhooked == \E m \in LifeMessages : QtWindowProc(m)

LifeSetup == \E h \in Hwnds : Setup(1, h)

LifeDestroy == Destroy(1)

NextLife == LifeSetup \/ LifeDestroy \/ LifeHooked \/ LifeUnhooked

SpecLife == InitHook /\ [][NextLife]_vars

\* ------------------------------------------- every context, with messages
\* Every context is set up, on either window, and destroyed, in any order,
\* and messages reach the windows that have the replacement procedure.
ForwardHooked == \E m \in LifeMessages : DeliverExternal(m, LifeEnv)

NextForward == SetupAny \/ DestroyAny \/ ForwardHooked

SpecForward == InitHook /\ [][NextForward]_vars

\* ------------------------------------------------ one message, every kind
\* One message of any kind is delivered in any state of context 1 (its two
\* fields and the filter's statics as the state machine above can leave them),
\* with the environment answering in any way the handlers can tell apart.
StepKeySets ==
    {{}, {VK_LBUTTON}, {VK_RBUTTON}, {VK_LBUTTON, VK_RBUTTON}, {VK_SHIFT, VK_CONTROL},
     {VK_MBUTTON, VK_XBUTTON1}, {VK_XBUTTON2}, VKeys}

StepMessages ==
    {Msg(1, k, MakeWord32(ht, 0), SmScreenPos) :
        k \in NcMouseMessages \ XButtonMessages, ht \in {HTCLOSE, HTZOOM}}
    \cup {Msg(1, k, MakeWord32(ht, x), SmScreenPos) :
            k \in XButtonMessages, ht \in {HTCLOSE, HTZOOM}, x \in {1, 2}}
    \cup {Msg(1, k, Word0, Word0) :
            k \in {WM_NCMOUSELEAVE, WM_MOUSELEAVE, WM_NCHITTEST, WM_LBUTTONDOWN, 15}
                  \cup TeardownMessages}
    \cup {Msg(1, WM_MOUSELEAVE, kMessageTag, Word0)}
    \cup {Msg(1, WM_MOUSEMOVE, MakeWord32(k, 0), MakeWord32(200, -40)) : k \in {0, MK_LBUTTON}}
    \cup {Msg(1, WM_NCCALCSIZE, MakeWord32(w, 0), Word0) : w \in {WinFALSE, WinTRUE}}

StepEnvs(m) ==
    {[EnvDefault EXCEPT !.valid = v, !.msgPos = o, !.buttons = {SmButton}, !.defMove = d,
                        !.keys = ks, !.swapped = sw, !.origin = og,
                        !.calc = [CalcDefault EXCEPT !.max = TRUE]] :
        v \in BOOLEAN,
        o \in (IF m.message = WM_MOUSELEAVE THEN {SmPosLocal, SmPosOnScreen, SmPosFar}
               ELSE {SmPosFar}),
        og \in (IF m.message = WM_MOUSELEAVE THEN {SmOrigin, [x |-> 0, y |-> 0]}
                ELSE {SmOrigin}),
        d \in (IF m.message = WM_NCMOUSEMOVE THEN {0, 1} ELSE {0}),
        ks \in (IF m.message \in NcMouseMessages THEN StepKeySets ELSE {{}}),
        sw \in (IF m.message \in NcMouseMessages THEN BOOLEAN ELSE {FALSE})}

\* the values the filter's statics hold, with nothing left in the queue,
\* after some message: not handled, handled with 0, handled with WVR_REDRAW
StepFilterStates ==
    {<<FALSE, WinFALSE>>, <<TRUE, WinFALSE>>, <<TRUE, WVR_REDRAW>>}

InitStep ==
    /\ os = "Win10"
    /\ \E m \in StepMessages : \E env \in StepEnvs(m) :
           pendingInput = <<[m |-> m, env |-> env]>>
    /\ \E hit \in WindowPart : \E blocked \in BOOLEAN : \E f \in StepFilterStates :
           Attached(hit, blocked, f[1], f[2])

NextStep == DeliverPending

SpecStep == InitStep /\ [][NextStep]_vars

\* ------------------------------------------------- one frame-size query
\* One WM_NCCALCSIZE, in either form, reaches the attached context on each OS
\* version, for each answer of the default procedure (its return value and the
\* frame it applies) and each state of the window and of the taskbar.
OsVersions == {"Win7", "Win8_1", "Win10"}

CalcInsets == {Rect(0, 0, 0, 0), Rect(8, 31, 8, 8)}

CalcTaskbars ==
    {[autoHide |-> ah, edges |-> es, sameMonitor |-> sm, taskbarEdge |-> te] :
        ah \in BOOLEAN,
        es \in {{}, {ABE_BOTTOM}, {ABE_TOP, ABE_BOTTOM}, {ABE_LEFT, ABE_RIGHT}},
        sm \in BOOLEAN,
        te \in {ABE_BOTTOM, ABE_TOP, ABE_RIGHT}}

CalcEnvs ==
    {[EnvDefault EXCEPT !.valid = v,
          !.calc = [rect |-> Rect(-8, -8, 1928, 1048), defRes |-> dr, defInsets |-> di,
                    max |-> mx, full |-> fl, frameSize |-> fs, autoHide |-> tb.autoHide,
                    edges |-> tb.edges, sameMonitor |-> tb.sameMonitor,
                    taskbarEdge |-> tb.taskbarEdge]] :
        v \in BOOLEAN, dr \in {HTERROR, HTNOWHERE, HTCLIENT, WVR_REDRAW}, di \in CalcInsets,
        mx \in BOOLEAN, fl \in BOOLEAN, fs \in {4, 8}, tb \in CalcTaskbars}

CalcMessages == {Msg(1, WM_NCCALCSIZE, MakeWord32(w, 0), Word0) : w \in {WinFALSE, WinTRUE}}

InitCalc ==
    /\ os \in OsVersions
    /\ \E m \in CalcMessages : \E env \in CalcEnvs : pendingInput = <<[m |-> m, env |-> env]>>
    /\ InitAttached

NextCalc == DeliverPending

SpecCalc == InitCalc /\ [][NextCalc]_vars

\* ------------------------------------------- two messages, one after another
\* Two non-client mouse messages reach the attached context back to back,
\* with no hit test and no posted message dispatched in between, from each
\* state of the context; the queue is empty before the first.
PairFirst ==
    {Msg(1, k, MakeWord32(HTCLOSE, 0), SmScreenPos) : k \in {WM_NCMOUSEMOVE, WM_NCLBUTTONDOWN}}

PairSecond ==
    {Msg(1, WM_NCMOUSELEAVE, Word0, Word0),
     Msg(1, WM_NCMOUSEMOVE, MakeWord32(HTCLOSE, 0), SmScreenPos)}

PairEnvs(m) ==
    {[EnvDefault EXCEPT !.valid = v, !.defMove = d, !.keys = {VK_LBUTTON},
                        !.origin = SmOrigin] :
        v \in BOOLEAN,
        d \in (IF m.message = WM_NCMOUSEMOVE THEN {0, 1} ELSE {0})}

InitPair ==
    /\ os = "Win10"
    /\ \E m1 \in PairFirst : \E e1 \in PairEnvs(m1) :
       \E m2 \in PairSecond : \E e2 \in PairEnvs(m2) :
           pendingInput = <<[m |-> m1, env |-> e1], [m |-> m2, env |-> e2]>>
    /\ \E hit \in WindowPart : \E blocked \in BOOLEAN :
           Attached(hit, blocked, FALSE, WinFALSE)

NextPair == DeliverPending

SpecPair == InitPair /\ [][NextPair]_vars

\* =============================================================== properties
\* the last operation was a message that windowProc handed to its handlers
SnapProcessed ==
    /\ step.op = "message"
    /\ step.ctx # 0
    /\ step.message \notin TeardownMessages
    /\ step.env.valid

\* the client-area kind that corresponds to a non-client mouse kind: the
\* client kinds are numbered like the non-client ones, WM_MOUSEMOVE on
XClientMessages == {WM_XBUTTONDOWN, WM_XBUTTONUP, WM_XBUTTONDBLCLK}

CorrespondingClientKind(message) ==
    IF message = WM_NCMOUSEHOVER THEN WM_MOUSEHOVER
    ELSE message + (WM_MOUSEMOVE - WM_NCMOUSEMOVE)

\* C1: every non-client mouse message (move, hover, button down/up/double-click
\* of the left, right, middle and extra buttons) that snapLayoutHandler
\* processes while lastHitTestResult is ChromeButton posts exactly one
\* client-area message, of the corresponding kind and to the same window,
\* whatever mouseLeaveBlocked is.
C1_ExactlyOneClientMessage ==
    (SnapProcessed /\ step.message \in NcMouseMessages /\ step.pre.hit = "ChromeButton")
        => /\ Len(step.out.posted) = 1
           /\ step.out.posted[1].message = CorrespondingClientKind(step.message)
           /\ step.out.posted[1].hwnd = step.hwnd
           /\ queue = step.out.posted

C1_Witness ==
    /\ SnapProcessed
    /\ step.message = WM_NCMOUSEHOVER
    /\ step.pre.hit = "ChromeButton"
    /\ step.pre.blocked
    /\ Len(queue) = 1
    /\ queue[1].message = WM_MOUSEHOVER

\* the word getKeyState() returns for the keys that were down during the step
LiveKeyState == getKeyState(step.env.keys, step.env.swapped)

\* C2 as stated: the wParam of every emulated message other than the mouse
\* leave is the live key state and nothing else, the extra-button kinds
\* included.
C2_Original ==
    SnapProcessed =>
        \A i \in 1..Len(step.out.posted) :
            step.out.posted[i].message # WM_MOUSELEAVE
                => step.out.posted[i].wParam = MakeWord32(LiveKeyState, 0)

\* C2: the low word of the wParam of every emulated message other than the
\* mouse leave is the live key state and no bit of it comes from the incoming
\* message; the high word is 0, except for the extra-button kinds, where it is
\* the high word of the incoming wParam (the button the message is about).
C2_KeyStateWord ==
    SnapProcessed =>
        \A i \in 1..Len(step.out.posted) :
            step.out.posted[i].message # WM_MOUSELEAVE
                => /\ LOWORD(step.out.posted[i].wParam) = LiveKeyState
                   /\ HIWORD(step.out.posted[i].wParam) =
                         IF step.out.posted[i].message \in XClientMessages
                         THEN HIWORD(step.wParam) ELSE 0

C2_Witness ==
    /\ SnapProcessed
    /\ step.message = WM_NCXBUTTONDOWN
    /\ step.env.keys = VKeys
    /\ step.env.swapped
    /\ Len(step.out.posted) = 1
    /\ step.out.posted[1].message = WM_XBUTTONDOWN
    /\ step.out.posted[1].wParam = MakeWord32(127, 2)
    /\ LOWORD(step.wParam) = HTZOOM

\* the last operation was a client-area mouse move the handler processed
ClientMoveProcessed == SnapProcessed /\ step.message = WM_MOUSEMOVE

\* C3: a client-area mouse move processed while mouseLeaveBlocked is true (a
\* leave was suppressed over a system button) and lastHitTestResult is not
\* ChromeButton sets mouseLeaveBlocked to false and asks for client-area leave
\* tracking exactly once; a client-area mouse move processed while
\* lastHitTestResult is ChromeButton or mouseLeaveBlocked is false changes
\* neither field and asks for no tracking. Either way nothing is posted.
C3_MoveClearsSuppression ==
    ClientMoveProcessed =>
        /\ step.out.posted = <<>>
        /\ lastHitTestResult[step.ctx] = step.pre.hit
        /\ IF step.pre.blocked /\ step.pre.hit # "ChromeButton"
           THEN /\ ~mouseLeaveBlocked[step.ctx]
                /\ step.out.tracked = <<[hwndTrack |-> step.hwnd, dwFlags |-> {"TME_LEAVE"}]>>
           ELSE /\ mouseLeaveBlocked[step.ctx] = step.pre.blocked
                /\ step.out.tracked = <<>>

C3_Witness ==
    /\ ClientMoveProcessed
    /\ step.pre.blocked
    /\ step.pre.hit = "Outside"
    /\ ~mouseLeaveBlocked[step.ctx]
    /\ Len(step.out.tracked) = 1

\* the last operation was a teardown message reaching windowProc
TeardownReceived ==
    step.op = "message" /\ step.ctx # 0 /\ step.message \in TeardownMessages

\* what C5 and its original statement share: not handled, nothing posted, no
\* tracking request, no delegate call, no default processing, both fields kept
TeardownPassesThrough ==
    /\ ~step.out.handled
    /\ ~lastMessageHandled
    /\ step.out.posted = <<>>
    /\ step.out.tracked = <<>>
    /\ step.out.resets = 0
    /\ step.out.defCalls = <<>>
    /\ lastHitTestResult[step.ctx] = step.pre.hit
    /\ mouseLeaveBlocked[step.ctx] = step.pre.blocked

\* C5 as stated: a teardown message also leaves the result value as it was
\* when the message was received.
C5_Original ==
    TeardownReceived => (TeardownPassesThrough /\ lastMessageResult = step.pre.result)

\* C5: for every teardown message, in every state, windowProc reports
\* not-handled, posts nothing, calls no delegate operation and leaves
\* lastHitTestResult and mouseLeaveBlocked as they were; the result value is
\* set to FALSE (0), whatever it was when the message was received.
C5_TeardownUntouched ==
    TeardownReceived => (TeardownPassesThrough /\ lastMessageResult = WinFALSE)

C5_Witness ==
    /\ TeardownReceived
    /\ step.message = WM_UAHDESTROYWINDOW
    /\ step.pre.hit = "ChromeButton"
    /\ step.pre.blocked
    /\ step.pre.result = WVR_REDRAW
    /\ lastMessageResult = WinFALSE

SetupTwiceInARow == step.op = "setup" /\ step.prev = <<"setup", step.ctx, step.hwnd>>

\* C6: the second of two setups in a row of the same context on the same
\* window changes nothing: the registry still maps the handle to the same
\* context and has no other new entry, the recorded original window
\* procedure is unchanged, and exactly one filter instance is installed (the
\* one installed before).
C6_SecondSetupIsNoOp ==
    SetupTwiceInARow =>
        /\ g_wndProcHash = step.before[1].hash
        /\ g_wndProcHash[step.hwnd] = step.ctx
        /\ g_qtWindowProc = step.before[1].qtProc
        /\ g_qtWindowProc # "nullptr"
        /\ instance = step.before[1].instance
        /\ nativeFilters = {instance}
        /\ installs = step.before[1].installs
        /\ windowId = step.before[1].windowId
        /\ wndProcOf = step.before[1].wndProcOf

C6_Witness ==
    /\ SetupTwiceInARow
    /\ step.ctx = 2
    /\ g_wndProcHash[step.hwnd] = 2
    /\ Cardinality(nativeFilters) = 1
    /\ g_wndProcHash[1] = 1

\* C7: the filter is never uninstalled twice: whenever a destruction runs
\* uninstall(), a filter instance is installed at that moment (instance is
\* not null and is among the installed filters).
C7_UninstallOnlyWhenInstalled ==
    (step.op = "destroy" /\ step.uninstalls = 1)
        => /\ step.before[1].instance # 0
           /\ step.before[1].instance \in step.before[1].filters

\* the last operation was a frame-size query the handler processed; Query is
\* what the environment answered during it
CalcProcessed == SnapProcessed /\ step.message = WM_NCCALCSIZE

Query == step.env.calc

\* C8: for a frame-size query on a maximized, non-full-screen window with no
\* auto-hide taskbar, the top of the client rectangle after handling is the
\* top of the proposed rectangle plus the resize-border thickness, on every
\* OS version and for both forms of the query.
C8_TopIsProposedPlusBorder ==
    (CalcProcessed /\ Query.max /\ ~Query.full /\ ~Query.autoHide)
        => step.out.rect.top = Query.rect.top + Query.frameSize

\* an auto-hide taskbar is found on the bottom edge and on no other
BottomTaskbarOnly ==
    /\ Query.autoHide
    /\ IF isWin8Point1OrGreater(os) THEN Query.edges = {ABE_BOTTOM}
       ELSE Query.sameMonitor /\ Query.taskbarEdge = ABE_BOTTOM

\* the rectangle the same query leaves when no taskbar is set to auto-hide
RectWithoutTaskbar ==
    windowProc(step.pre, step.hwnd, step.message, step.wParam, step.lParam,
               [step.env EXCEPT !.calc.autoHide = FALSE], os).rect

\* C9: for a frame-size query on a maximized, non-full-screen window with an
\* auto-hide taskbar on the bottom edge, the bottom of the client rectangle is
\* 2 (the auto-hide thickness) less than for the same query without an
\* auto-hide taskbar, and the top, left and right edges are the same.
C9_BottomReducedByThickness ==
    (CalcProcessed /\ Query.max /\ ~Query.full /\ BottomTaskbarOnly)
        => step.out.rect = [RectWithoutTaskbar EXCEPT !.bottom = @ - 2]

\* the queries C10 is about: the modern path, a maximized non-full-screen
\* window, a resize border of 8, no auto-hide taskbar
ModernMaximizedQuery ==
    /\ CalcProcessed
    /\ isWin10OrGreater(os)
    /\ Query.max /\ ~Query.full /\ ~Query.autoHide
    /\ Query.frameSize = 8

C11_ResultIsZeroOrRedraw ==
    (CalcProcessed /\ step.out.handled)
        => step.out.result = IF step.wParam = Word0 THEN WinFALSE ELSE WVR_REDRAW

\* the non-client mouse-move was processed with classification ChromeButton
\* and the non-client mouse-leave that followed it at once has been processed
MoveOnButtonThenNcLeave ==
    /\ SnapProcessed
    /\ step.message = WM_NCMOUSELEAVE
    /\ step.prev # <<>>
    /\ step.prev[1].message = WM_NCMOUSEMOVE
    /\ step.prev[1].env.valid
    /\ step.prev[1].pre.hit = "ChromeButton"

\* the tagged client-area mouse-leaves among the messages of a sequence
TaggedLeaves(posted) ==
    SelectSeq(posted, LAMBDA p : p.message = WM_MOUSELEAVE /\ isTaggedMessage(p.wParam))

\* the messages the two steps of the sequence produced, in order
PairProduced == step.prev[1].out.posted \o step.out.posted

\* C12 (as stated): in the sequence 'non-client mouse-move processed with
\* classification ChromeButton, at once followed by a non-client mouse-leave'
\* exactly one tagged client-area mouse-leave has been produced when the
\* second message completes, whatever mouseLeaveBlocked was at the start.
C12_Original ==
    MoveOnButtonThenNcLeave => Len(TaggedLeaves(PairProduced)) = 1

\* C12 (amended): in that sequence the tagged client-area mouse-leave is
\* produced, by the non-client mouse-leave, exactly when mouseLeaveBlocked was
\* set at the start: one if it was set, none if it was clear; the move itself
\* produces the emulated client-area mouse-move only, and the queue holds
\* what the two produced.
C12_LeaveOnlyWhenSuppressed ==
    MoveOnButtonThenNcLeave =>
        /\ Len(TaggedLeaves(PairProduced)) =
               (IF step.prev[1].pre.blocked THEN 1 ELSE 0)
        /\ TaggedLeaves(step.prev[1].out.posted) = <<>>
        /\ Len(step.prev[1].out.posted) = 1
        /\ step.prev[1].out.posted[1].message = WM_MOUSEMOVE
        /\ queue = PairProduced

C12_Witness ==
    /\ MoveOnButtonThenNcLeave
    /\ step.prev[1].pre.blocked
    /\ Len(TaggedLeaves(step.out.posted)) = 1

\* C13 (as stated): in the sequence 'non-client mouse-move processed with
\* classification ChromeButton, then non-client mouse-leave' neither message
\* changes lastHitTestResult: it is still ChromeButton while the leave is
\* being processed and after it.
C13_Original ==
    MoveOnButtonThenNcLeave =>
        /\ step.prev[1].out.hit = "ChromeButton"
        /\ step.pre.hit = "ChromeButton"
        /\ step.out.hit = "ChromeButton"

\* C13 (amended): in that sequence the non-client mouse-move itself resets
\* lastHitTestResult to Outside, so it is Outside, not ChromeButton, while
\* the leave is being processed; the non-client mouse-leave does not change
\* it.
C13_MoveResetsClassification ==
    MoveOnButtonThenNcLeave =>
        /\ step.prev[1].out.hit = "Outside"
        /\ step.pre.hit = "Outside"
        /\ step.out.hit = step.pre.hit
        /\ lastHitTestResult[step.ctx] = "Outside"

C13_Witness ==
    /\ MoveOnButtonThenNcLeave
    /\ step.pre.hit = "Outside"
    /\ step.prev[1].out.handled

\* the last operation was a message that the replacement procedure received
\* for a handle with a registry entry
HookedWithEntry == step.op = "message" /\ step.ctx # 0

\* C14: for every message delivered to a handle that has a registry entry,
\* the replacement procedure runs the context's handler once on the state the
\* context had, records the handler's handled flag and result in the filter's
\* statics, and then forwards the message to the recorded original procedure,
\* handled or not.
C14_HandlerThenForward ==
    HookedWithEntry =>
        /\ step.out = windowProc(step.pre, step.hwnd, step.message, step.wParam,
                                 step.lParam, step.env, os)
        /\ lastMessageHandled = step.out.handled
        /\ lastMessageResult = step.out.result
        /\ step.forwarded = g_qtWindowProc
        /\ g_qtWindowProc = "qt"

\* C15: a message delivered to the replacement procedure for a handle that is
\* absent from the registry is forwarded to the OS default procedure; no
\* handler runs, no state of a context or of the filter changes, and nothing
\* is posted.
C15_AbsentHandleDefaults ==
    [][(/\ step'.op = "message"
        /\ step'.hwnd # 0
        /\ wndProcOf[step'.hwnd] = "hook"
        /\ g_wndProcHash[step'.hwnd] = 0)
       => /\ step'.forwarded = "DefWindowProcW"
          /\ step'.ctx = 0
          /\ step'.out.posted = <<>>
          /\ step'.out.tracked = <<>>
          /\ step'.out.defCalls = <<>>
          /\ step'.consulted = <<>>
          /\ UNCHANGED <<lastHitTestResult, mouseLeaveBlocked, ctxVars, hookVars,
                         filterVars, queue>>]_vars

C15_Witness ==
    /\ step.op = "message"
    /\ step.forwarded = "DefWindowProcW"
    /\ step.message = WM_NCCALCSIZE
    /\ ~alive[1]
    /\ lastMessageHandled

\* C16: whenever Qt consults the filter while it dispatches a message, the
\* filter reports 'handled, with result r' if and only if the handler of the
\* hook claimed that same message with result r; a flag or a result left over
\* from an earlier message is never reported.
C16_FilterReportsThisMessage ==
    (step.op = "message" /\ step.consulted # <<>>) =>
        /\ step.consulted[1].handled <=> (step.ctx # 0 /\ step.out.handled)
        /\ step.consulted[1].handled => step.consulted[1].result = step.out.result

\* the registry maps no handle
RegistryEmpty(hash) == \A h \in Hwnds : hash[h] = 0

LifecycleStep == step.op \in {"setup", "destroy"}

\* C17: after any sequence of setups and destructions the filter is installed
\* if and only if the registry is non-empty: a setup that finds no filter
\* installs one (the first, and any setup after an uninstall), the filter
\* stays while the registry maps a handle, and the destruction that empties
\* the registry uninstalls it.
C17_FilterIffRegistryNonEmpty ==
    /\ instance # 0 <=> ~RegistryEmpty(g_wndProcHash)
    /\ nativeFilters = (IF RegistryEmpty(g_wndProcHash) THEN {} ELSE {instance})
    /\ (step.op = "setup" /\ step.before[1].instance = 0)
           => (instance = step.before[1].installs + 1 /\ installs = instance)
    /\ (LifecycleStep /\ step.before[1].instance # 0 /\ ~RegistryEmpty(g_wndProcHash))
           => (instance = step.before[1].instance /\ installs = step.before[1].installs)
    /\ (step.op = "destroy" /\ step.before[1].instance # 0 /\ RegistryEmpty(g_wndProcHash))
           => (step.uninstalls = 1 /\ instance = 0)

C17_Witness ==
    /\ step.op = "setup"
    /\ step.before[1].instance = 0
    /\ step.before[1].installs = 1
    /\ nativeFilters = {2}

\* C18: at every moment at most one filter instance is installed, and the
\* original window procedure is recorded by the first setup only: once
\* recorded it is never changed by a setup or a destruction that follows.
C18_OneFilterOneRecordedProc ==
    /\ Cardinality(nativeFilters) <= 1
    /\ (step.op = "setup" /\ step.before[1].qtProc = "nullptr")
           => g_qtWindowProc = step.before[1].wndProcOf[step.hwnd]
    /\ (LifecycleStep /\ step.before[1].qtProc # "nullptr")
           => g_qtWindowProc = step.before[1].qtProc
    /\ step.op = "destroy" => g_qtWindowProc = step.before[1].qtProc

C18_Witness ==
    /\ step.op = "setup"
    /\ step.before[1].qtProc = "qt"
    /\ step.before[1].wndProcOf[step.hwnd] = "hook"
    /\ step.before[1].instance = 0
    /\ g_qtWindowProc = "qt"

\* C19: after the destruction of a context, in any sequence of setups, the
\* registry contains no entry that refers to the destroyed context.
C19_NoEntryOfDestroyedContext ==
    \A h \in Hwnds : g_wndProcHash[h] # 0 => alive[g_wndProcHash[h]]

\* the last operation was a registration call with invalid input: a null
\* object, an invalid rectangle or the Unknown role
InvalidRegistration ==
    \/ step.op \in {"setHitTestVisibleItem", "setTitleBar"} /\ step.args[1] = 0
    \/ step.op = "setHitTestVisibleRect" /\ ~isValid(step.args[1])
    \/ step.op = "setSystemButton" /\ (step.args[1] = "Unknown" \/ step.args[2] = 0)

\* C20: every registration operation called with invalid input returns
\* failure and leaves the item set, the rectangle list, the system-button
\* mapping and the title-bar reference unchanged.
C20_InvalidInputReturnsFailure ==
    InvalidRegistration =>
        /\ ~step.aborted
        /\ step.ret = FALSE
        /\ RegSnapshot = step.before[1]

ChromeButtonCodes == {HTSYSMENU, HTHELP, HTREDUCE, HTZOOM, HTCLOSE}

BorderDragCodes ==
    {HTLEFT, HTRIGHT, HTTOP, HTBOTTOM, HTTOPLEFT, HTTOPRIGHT, HTBOTTOMLEFT, HTBOTTOMRIGHT}

\* C21: the classifier gives a window part for every hit-test code: ClientArea
\* exactly for the client code, TitleBar exactly for the caption code,
\* ChromeButton exactly for the system-menu, help, minimize, maximize and
\* close codes, ResizeBorder exactly for the eight border-drag codes,
\* FixedBorder exactly for the generic border code, Outside for every other.
C21_ClassifierTotal ==
    step.op = "hittest" =>
        LET code == step.args[1]
            part == lastHitTestResult[step.ctx]
        IN  /\ part \in WindowPart
            /\ part = "ClientArea" <=> code = HTCLIENT
            /\ part = "TitleBar" <=> code = HTCAPTION
            /\ part = "ChromeButton" <=> code \in ChromeButtonCodes
            /\ part = "ResizeBorder" <=> code \in BorderDragCodes
            /\ part = "FixedBorder" <=> code = HTBORDER
            /\ part = "Outside" <=>
                   code \notin ({HTCLIENT, HTCAPTION, HTBORDER} \cup ChromeButtonCodes
                                    \cup BorderDragCodes)

C21_Witness ==
    /\ step.op = "hittest"
    /\ step.args[1] = HTERROR + 1
    /\ step.pre.hit = "ChromeButton"
    /\ lastHitTestResult[1] = "Outside"

\* an untagged client-area mouse-leave was processed
UntaggedLeave ==
    SnapProcessed /\ step.message = WM_MOUSELEAVE /\ ~isTaggedMessage(step.wParam)

\* the position of the message, translated from screen coordinates to scene
\* coordinates of the window, lies over a registered system button
OverSystemButton(env) ==
    isInSystemButtons(env, fromNativeLocalPosition(env, ScreenToClient(env, env.msgPos)))

\* C22: an untagged client-area mouse-leave is suppressed if and only if the
\* message position, translated to scene coordinates, lies over a registered
\* system button: then mouseLeaveBlocked becomes true and the message is
\* handled with result 0; otherwise mouseLeaveBlocked becomes false and the
\* message is not handled. Either way lastHitTestResult is unchanged and
\* nothing is synthesized.
C22_SuppressedIffOverButton ==
    UntaggedLeave =>
        /\ IF OverSystemButton(step.env)
           THEN /\ mouseLeaveBlocked[step.ctx]
                /\ step.out.handled
                /\ step.out.result = WinFALSE
           ELSE /\ ~mouseLeaveBlocked[step.ctx]
                /\ ~step.out.handled
        /\ lastHitTestResult[step.ctx] = step.pre.hit
        /\ step.out.posted = <<>>

\* the last operation processed a tagged client-area mouse-leave
TaggedLeaveProcessed ==
    SnapProcessed /\ step.message = WM_MOUSELEAVE /\ step.wParam = kMessageTag

\* C23: every synthesized client-area mouse-leave carries the sentinel tag as
\* its wParam, and a tagged client-area mouse-leave is never suppressed:
\* processing it sets mouseLeaveBlocked to false, reports not handled and
\* emits no message, also when the position test says the cursor is over a
\* system button.
C23_TaggedLeaveNeverSuppressed ==
    /\ \A i \in 1..Len(queue) :
           queue[i].message = WM_MOUSELEAVE => queue[i].wParam = kMessageTag
    /\ \A i \in 1..Len(step.out.posted) :
           step.out.posted[i].message = WM_MOUSELEAVE
               => step.out.posted[i].wParam = kMessageTag
    /\ TaggedLeaveProcessed =>
           /\ ~mouseLeaveBlocked[step.ctx]
           /\ ~step.out.handled
           /\ step.out.posted = <<>>
           /\ lastHitTestResult[step.ctx] = step.pre.hit

C23_Witness ==
    /\ TaggedLeaveProcessed
    /\ step.source = "posted"
    /\ step.pre.blocked
    /\ isInSystemButtons(step.env, fromNativeLocalPosition(step.env, step.env.msgPos))

\* the tagged client-area mouse-leave the handler synthesizes for window h
SynthesizedLeave(posted, h) ==
    /\ Len(posted) = 1
    /\ posted[1].message = WM_MOUSELEAVE
    /\ posted[1].wParam = kMessageTag
    /\ posted[1].hwnd = h

\* C24: a non-client mouse-move processed while lastHitTestResult is not
\* ChromeButton resets the grabbed control once, synthesizes one client-area
\* mouse-leave if and only if mouseLeaveBlocked is true, sets
\* lastHitTestResult to Outside, emits no client-area mouse-move, leaves
\* mouseLeaveBlocked unchanged and is not handled.
C24_MoveOffButton ==
    (SnapProcessed /\ step.message = WM_NCMOUSEMOVE /\ step.pre.hit # "ChromeButton") =>
        /\ step.out.resets = 1
        /\ IF step.pre.blocked THEN SynthesizedLeave(step.out.posted, step.hwnd)
           ELSE step.out.posted = <<>>
        /\ lastHitTestResult[step.ctx] = "Outside"
        /\ mouseLeaveBlocked[step.ctx] = step.pre.blocked
        /\ ~step.out.handled
        /\ ~lastMessageHandled
        /\ step.out.defCalls = <<>>
        /\ step.out.tracked = <<>>

C24_Witness ==
    /\ SnapProcessed
    /\ step.message = WM_NCMOUSEMOVE
    /\ step.pre.hit = "TitleBar"
    /\ step.pre.blocked
    /\ SynthesizedLeave(queue, step.hwnd)

\* C25: a non-client mouse-leave processed while lastHitTestResult is
\* ChromeButton is not handled, synthesizes nothing and does not reset the
\* grabbed control; if mouseLeaveBlocked was true it becomes false and the
\* client-area leave tracking is re-armed once, if it was false nothing
\* changes and nothing is re-armed.
C25_NcLeaveOnButton ==
    (SnapProcessed /\ step.message = WM_NCMOUSELEAVE /\ step.pre.hit = "ChromeButton") =>
        /\ ~step.out.handled
        /\ step.out.posted = <<>>
        /\ step.out.resets = 0
        /\ ~mouseLeaveBlocked[step.ctx]
        /\ lastHitTestResult[step.ctx] = "ChromeButton"
        /\ step.out.tracked =
               (IF step.pre.blocked
                THEN <<[hwndTrack |-> step.hwnd, dwFlags |-> {"TME_LEAVE"}]>>
                ELSE <<>>)

C25_Witness ==
    /\ SnapProcessed
    /\ step.message = WM_NCMOUSELEAVE
    /\ step.pre.hit = "ChromeButton"
    /\ step.pre.blocked
    /\ Len(step.out.tracked) = 1

\* C26: a non-client mouse-leave processed while lastHitTestResult is not
\* ChromeButton synthesizes one client-area mouse-leave if mouseLeaveBlocked
\* is true and none otherwise, resets the grabbed control if and only if
\* lastHitTestResult is Outside, leaves both fields unchanged and is not
\* handled.
C26_NcLeaveOffButton ==
    (SnapProcessed /\ step.message = WM_NCMOUSELEAVE /\ step.pre.hit # "ChromeButton") =>
        /\ IF step.pre.blocked THEN SynthesizedLeave(step.out.posted, step.hwnd)
           ELSE step.out.posted = <<>>
        /\ step.out.resets = (IF step.pre.hit = "Outside" THEN 1 ELSE 0)
        /\ lastHitTestResult[step.ctx] = step.pre.hit
        /\ mouseLeaveBlocked[step.ctx] = step.pre.blocked
        /\ ~step.out.handled
        /\ step.out.tracked = <<>>

C26_Witness ==
    /\ SnapProcessed
    /\ step.message = WM_NCMOUSELEAVE
    /\ step.pre.hit = "ClientArea"
    /\ step.pre.blocked
    /\ SynthesizedLeave(queue, step.hwnd)
    /\ step.out.resets = 0

\* C27: every non-client mouse message re-emitted while the classification
\* is ChromeButton is handled; the default procedure is invoked only for the
\* non-client mouse-move, whose result is then the default procedure's; for
\* the other kinds the result is TRUE for the three extra-button kinds and 0
\* for the rest.
C27_ReemittedHandled ==
    (SnapProcessed /\ step.message \in NcMouseMessages /\ step.pre.hit = "ChromeButton") =>
        /\ step.out.handled
        /\ lastMessageHandled
        /\ IF step.message = WM_NCMOUSEMOVE
           THEN /\ step.out.defCalls = <<WM_NCMOUSEMOVE>>
                /\ lastMessageResult = step.env.defMove
           ELSE /\ step.out.defCalls = <<>>
                /\ lastMessageResult =
                       (IF step.message \in
                              {WM_NCXBUTTONDOWN, WM_NCXBUTTONUP, WM_NCXBUTTONDBLCLK}
                        THEN WinTRUE ELSE WinFALSE)

C27_Witness ==
    /\ SnapProcessed
    /\ step.pre.hit = "ChromeButton"
    /\ step.message = WM_NCXBUTTONUP
    /\ lastMessageHandled
    /\ lastMessageResult = WinTRUE

ReturnedAtLine879 ==
    isWin10OrGreater(os) /\ Query.defRes # HTERROR /\ Query.defRes # HTNOWHERE

\* the rectangle the handler holds after lines 865-889: the proposed one on
\* the older path; on the modern path the one the default procedure
\* computed, with the proposed top put back unless the handler returned at
\* line 879
RectAfterDefaultFrame ==
    IF ~isWin10OrGreater(os) THEN Query.rect
    ELSE LET d == [left |-> Query.rect.left + Query.defInsets.left,
                   top |-> Query.rect.top + Query.defInsets.top,
                   right |-> Query.rect.right - Query.defInsets.right,
                   bottom |-> Query.rect.bottom - Query.defInsets.bottom]
         IN  IF ReturnedAtLine879 THEN d ELSE [d EXCEPT !.top = Query.rect.top]

\* the auto-hide correction has nothing to do: the window is neither
\* maximized nor full-screen, or the taskbar is not set to auto-hide
NoAutoHideCorrection == ~((Query.max \/ Query.full) /\ Query.autoHide)

\* C29: the resize-border correction is applied if and only if the window is
\* maximized and not full-screen: then the top is moved inward by the border
\* thickness on every OS version and, on the older path only, the left, right
\* and bottom too; for a full-screen window, or one neither maximized nor
\* full-screen, the step changes no edge. (Stated on the queries the
\* auto-hide correction leaves alone, so that the rectangle after handling is
\* the rectangle after this step.)
C29_CorrectionIffMaximized ==
    (CalcProcessed /\ NoAutoHideCorrection)
        => LET r == RectAfterDefaultFrame
               t == Query.frameSize
           IN  step.out.rect =
                   IF Query.max /\ ~Query.full
                   THEN IF isWin10OrGreater(os)
                        THEN [r EXCEPT !.top = @ + t]
                        ELSE [left |-> r.left + t, top |-> r.top + t,
                              right |-> r.right - t, bottom |-> r.bottom - t]
                   ELSE r

\* the rectangle the handler holds when it reaches line 916, or with which it
\* returned at line 879
RectBeforeAutoHide ==
    LET r == RectAfterDefaultFrame
        t == Query.frameSize
    IN  IF ReturnedAtLine879 \/ ~(Query.max /\ ~Query.full) THEN r
        ELSE IF isWin10OrGreater(os) THEN [r EXCEPT !.top = @ + t]
        ELSE [left |-> r.left + t, top |-> r.top + t,
              right |-> r.right - t, bottom |-> r.bottom - t]

\* the edges of the client rectangle the rest of the handling changed
ChangedEdges ==
    {e \in {"left", "top", "right", "bottom"} : step.out.rect[e] # RectBeforeAutoHide[e]}

\* edge e of the client rectangle was moved inward by exactly 2
MovedInwardByTwo(e) ==
    IF e \in {"left", "top"}
    THEN step.out.rect[e] = RectBeforeAutoHide[e] + 2
    ELSE step.out.rect[e] = RectBeforeAutoHide[e] - 2

\* the edges of the monitor on which the queries of lines 927-960 find an
\* auto-hide taskbar
DetectedEdges ==
    IF os \in {"Win8_1", "Win10"} THEN Query.edges
    ELSE IF Query.sameMonitor THEN {Query.taskbarEdge} ELSE {}

\* the first detected edge in the order top, bottom, left, right
FirstDetectedEdge ==
    IF ABE_TOP \in DetectedEdges THEN {"top"}
    ELSE IF ABE_BOTTOM \in DetectedEdges THEN {"bottom"}
    ELSE IF ABE_LEFT \in DetectedEdges THEN {"left"}
    ELSE IF ABE_RIGHT \in DetectedEdges THEN {"right"}
    ELSE {}

\* C30: the auto-hide-taskbar correction changes at most one edge of the
\* client rectangle per frame-size query, by exactly 2 inward, and only when
\* the window is maximized or full-screen and the taskbar state reports
\* auto-hide; where it looks for taskbars, the edge it changes is the first
\* detected one in the order top, bottom, left, right, and it changes none
\* when none is detected.
C30_AtMostOneEdgeByTwo ==
    CalcProcessed
        => /\ Cardinality(ChangedEdges) <= 1
           /\ \A e \in ChangedEdges : MovedInwardByTwo(e)
           /\ ChangedEdges # {} => (Query.max \/ Query.full) /\ Query.autoHide
           /\ (~ReturnedAtLine879 /\ (Query.max \/ Query.full) /\ Query.autoHide)
                  => ChangedEdges = FirstDetectedEdge

C30_Witness ==
    /\ CalcProcessed
    /\ ~ReturnedAtLine879
    /\ Query.max /\ Query.autoHide
    /\ DetectedEdges = {ABE_TOP, ABE_BOTTOM}
    /\ ChangedEdges = {"top"}
    /\ step.out.rect.top = RectBeforeAutoHide.top + 2
    /\ step.out.rect.bottom = RectBeforeAutoHide.bottom

\* what this component's own corrections add to the top: the border
\* thickness for a maximized, non-full-screen window and the auto-hide
\* thickness when the first detected taskbar edge is the top
OwnTopCorrections ==
    (IF Query.max /\ ~Query.full THEN Query.frameSize ELSE 0)
    + (IF (Query.max \/ Query.full) /\ Query.autoHide /\ ABE_TOP \in DetectedEdges
       THEN kAutoHideTaskBarThickness ELSE 0)

\* C31: on the path that still draws a default frame (Windows 10 or later)
\* the top margin of the default sizing is never retained: after every handled
\* frame-size query the top of the client rectangle is the proposed top plus
\* only this component's own corrections, whatever the default procedure
\* returned.
C31_DefaultTopDiscarded ==
    (CalcProcessed /\ isWin10OrGreater(os) /\ step.out.handled)
        => step.out.rect.top = Query.rect.top + OwnTopCorrections

\* the message kinds the cases of snapLayoutHandler's switch name
StateMachineKinds == {WM_MOUSEMOVE, WM_MOUSELEAVE, WM_NCMOUSELEAVE} \cup NcMouseMessages

\* the last operation was a message for a live context that is of a kind
\* outside the state machine's set, or that arrived while the window failed
\* the validity check
OutsideStateMachine ==
    /\ step.op = "message"
    /\ step.ctx # 0
    /\ step.message \notin StateMachineKinds \/ ~step.env.valid

\* C32: a message of a kind outside the state machine's set (the frame-size
\* query included), and any message arriving while the window fails the
\* validity check, is not handled by snapLayoutHandler and leaves
\* lastHitTestResult and mouseLeaveBlocked as they were, with no message
\* posted, no leave-tracking request and no call of the delegate; only the
\* frame-size query of a valid window is reported handled (by
\* customWindowHandler).
C32_OtherKindsFallThrough ==
    OutsideStateMachine
        => /\ lastHitTestResult[step.ctx] = step.pre.hit
           /\ mouseLeaveBlocked[step.ctx] = step.pre.blocked
           /\ step.out.hit = step.pre.hit
           /\ step.out.blocked = step.pre.blocked
           /\ step.out.posted = <<>>
           /\ step.out.tracked = <<>>
           /\ step.out.resets = 0
           /\ step.out.handled <=> (step.message = WM_NCCALCSIZE /\ step.env.valid)
           /\ ~snapLayoutHandler(step.pre, step.hwnd, step.message, step.wParam,
                                 step.lParam, step.env).handled \/ ~step.env.valid

C32_Witness ==
    /\ OutsideStateMachine
    /\ step.message = WM_NCCALCSIZE
    /\ step.env.valid
    /\ step.pre.hit = "ChromeButton"
    /\ step.pre.blocked
    /\ step.out.handled
    /\ lastHitTestResult[step.ctx] = "ChromeButton"
    /\ mouseLeaveBlocked[step.ctx]

\* two non-client mouse messages were processed one after the other, with
\* nothing taken from the queue in between, and mouseLeaveBlocked was set
\* before the first and has not been cleared since
PairWhileSuppressed ==
    /\ SnapProcessed
    /\ step.prev # <<>>
    /\ step.prev[1].env.valid
    /\ step.prev[1].pre.blocked
    /\ step.prev[1].out.blocked
    /\ step.pre.blocked
    /\ step.out.blocked
    /\ mouseLeaveBlocked[step.ctx]

\* C33: synthesized leaves are not duplicated: while mouseLeaveBlocked stays
\* set after one suppressed client-area mouse-leave, at most one synthesized
\* (tagged) client-area mouse-leave is posted, also when several non-client
\* mouse-moves and mouse-leaves are processed before the first posted leave
\* is taken from the queue.
C33_NoDuplicateLeave ==
    PairWhileSuppressed
        => /\ Len(TaggedLeaves(PairProduced)) <= 1
           /\ Len(TaggedLeaves(queue)) <= 1

\* C34: the recorded original window procedure is never the replacement
\* procedure: in every sequence of setups and destructions it is Qt's
\* procedure from the first setup on, so whenever a window has the
\* replacement procedure installed a message is forwarded to Qt's procedure
\* (or to the OS default procedure) and never back into the hook.
C34_OriginalIsNeverTheHook ==
    /\ g_qtWindowProc \in {"nullptr", "qt"}
    /\ (\E h \in Hwnds : wndProcOf[h] = "hook") => g_qtWindowProc = "qt"
    /\ step.op = "message" => step.forwarded \in {"qt", "DefWindowProcW", "none"}

\* a window that kept the replacement procedure after every context had been
\* destroyed was attached again, and a message for it has been forwarded
C34_Witness ==
    /\ step.op = "message"
    /\ step.ctx = 2
    /\ alive[2]
    /\ ~alive[1]
    /\ windowId[1] = step.hwnd
    /\ windowId[2] = step.hwnd
    /\ installs = 2
    /\ step.forwarded = "qt"

\* C35: in every state reached from the initial state through the handlers
\* windowProc dispatches alone, lastHitTestResult is Outside: no dispatched
\* handler assigns it another classification, and so no message is handled
\* in the ChromeButton branch.
C35_ClassificationStaysOutside ==
    /\ \A c \in Ctxs : lastHitTestResult[c] = "Outside"
    /\ step.op = "message"
           => /\ step.pre.hit = "Outside"
              /\ step.out.hit = "Outside"
              /\ step.message \in NcMouseMessages => ~step.out.handled

\* a non-client mouse-move over the close button was processed while a
\* leave was suppressed: it posted the synthesized leave, was not handled,
\* and the classification is Outside
C35_Witness ==
    /\ SnapProcessed
    /\ step.message = WM_NCMOUSEMOVE
    /\ LOWORD(step.wParam) = HTCLOSE
    /\ step.pre.blocked
    /\ step.out.posted # <<>>
    /\ ~step.out.handled
    /\ lastHitTestResult[step.ctx] = "Outside"

\* the entries of a rectangle list that equal rect
EntriesOf(rects, rect) == SelectSeq(rects, LAMBDA r : r = rect)

\* the last operation was a call of setHitTestVisible for an object
ItemCall(visible) ==
    step.op = "setHitTestVisibleItem" /\ step.args[2] = visible

\* the last operation was a call of setHitTestVisible for a rectangle
RectCall(visible) ==
    step.op = "setHitTestVisibleRect" /\ step.args[2] = visible

\* C36: after setHitTestVisible(x, false) x is not registered, however often
\* it was registered before; registering an object adds it to the item set,
\* where it is a member once however often it is registered; registering a
\* valid rectangle appends one more entry to the rectangle list, so that
\* registering it twice stores two entries; one unregistration removes every
\* entry of the rectangle and no other.
C36_UnregisterRemovesAll ==
    /\ ItemCall(FALSE)
           => /\ step.args[1] \notin m_hitTestVisibleItems[step.ctx]
              /\ m_hitTestVisibleItems[step.ctx] = step.before[1].items[step.ctx] \ {step.args[1]}
    /\ (ItemCall(TRUE) /\ step.args[1] # 0)
           => m_hitTestVisibleItems[step.ctx] = step.before[1].items[step.ctx] \cup {step.args[1]}
    /\ RectCall(FALSE)
           => /\ EntriesOf(m_hitTestVisibleRects[step.ctx], step.args[1]) = <<>>
              /\ m_hitTestVisibleRects[step.ctx] =
                     SelectSeq(step.before[1].rects[step.ctx], LAMBDA r : r # step.args[1])
    /\ (RectCall(TRUE) /\ isValid(step.args[1]))
           => /\ m_hitTestVisibleRects[step.ctx] =
                     Append(step.before[1].rects[step.ctx], step.args[1])
              /\ Len(EntriesOf(m_hitTestVisibleRects[step.ctx], step.args[1])) =
                     Len(EntriesOf(step.before[1].rects[step.ctx], step.args[1])) + 1

\* a rectangle that had been registered twice was unregistered by one call
C36_Witness ==
    /\ RectCall(FALSE)
    /\ Len(EntriesOf(step.before[1].rects[step.ctx], step.args[1])) = 2
    /\ m_hitTestVisibleRects[step.ctx] = <<>>
    /\ step.ret

\* C37: the conversions between the native and the toolkit's geometry types
\* round-trip: for every native rectangle with left <= right and
\* top <= bottom, qrect2rect(rect2qrect(r)) = r, and likewise
\* qpoint2point(point2qpoint(p)) = p and qsize2size(size2qsize(s)) = s.
C37_ConversionsRoundTrip ==
    step.op \in {"point", "size", "rect"} => step.args[3] = step.args[1]

====
